---- MODULE Spec2Model ----
(***************************************************************************)
(* Model of MunicipalityCodeMapper (code/municipality_mapping/             *)
(* code_mapper.py): the State Identifier (find_gemeindestand), the Mapping *)
(* Composer (create_multi_mapping) and the Newest-State Projector          *)
(* (map_multiple_gemeindestaende_to_newest), map_dataframe, and            *)
(* MunicipalityNameMatcher.match_name (name_matcher.py).                   *)
(*                                                                         *)
(* A date string "dd-mm-YYYY" is the tuple <<dd, mm, YYYY>>; a datetime is *)
(* its day number.  A pandas table is [cols, rows]: the column names in    *)
(* order and the rows, each a function from column name to cell.           *)
(***************************************************************************)
EXTENDS Integers, Sequences, FiniteSets, TLC

VARIABLES
    data,               \* self.data: the catalog rows [gemeindestand, anz_gmde]
    gmde_dct,           \* self.gmde_dct: gemeindestand -> (code -> name)
    service,            \* which rows the authority's correspondence service leaves out
    find_pc,            \* position of the find_gemeindestand call
    find_df,            \* the caller's DataFrame: rows [code, name]
    gemeinde_set,       \* find_gemeindestand's local gemeinde_set
    num_gmde,           \* find_gemeindestand's local num_gmde
    wrong_codes_dict,   \* find_gemeindestand's local wrong_codes_dict
    find_result,        \* what find_gemeindestand returned or raised
    multi_pc,           \* position of the create_multi_mapping call
    multi_args,         \* its arguments [origin, targets, return_names]
    multi_origin,       \* its local origin, after snapping
    multi_targets,      \* its local targets (datetimes), after sorting
    earliest_date,      \* its local earliest_date (a datetime)
    tasks,              \* the fetches handed to asyncio.gather: <<origin, target>> each
    mappings,           \* the slot of each task: pending, or the table fetched
    failed,             \* the tasks whose fetch failed
    overtaken,          \* history: a fetch returned before one issued earlier
    fold_i,             \* mappings already folded into full_mapping
    start_date,         \* the local start_date of the fold
    full_mapping,       \* the running table of the fold
    multi_result,       \* what create_multi_mapping returned or raised
    proj_pc,            \* position of the map_multiple_gemeindestaende_to_newest call
    proj_run,           \* how many times the caller has run it on this dataset
    caller_df,          \* the DataFrame object the caller passed
    proj_df,            \* its local df
    newest,             \* its local newest
    origins,            \* its local origins
    proj_mappings,      \* the slot of each of its fetches: pending, or the table
    proj_failed,        \* its fetches that failed
    proj_i,             \* mappings already merged onto df
    first_output,       \* what the first run returned
    proj_result,        \* what the call returned or raised
    officials,          \* the matcher's self.officials: rows [id, name, normalized]
    config,             \* the matcher's configuration, as __init__ keeps it
    match_pc,           \* position of the match_name call
    match_query,        \* the argument query_normalized of match_name
    query_normalized,   \* its local query_normalized, common mistakes fixed
    match_candidates,   \* its local candidates: positions in officials
    match_scores,       \* its local scores: the combined score of each candidate
    match_result,       \* what match_name returned
    frame_pc,           \* position of the map_dataframe call
    frame_args,         \* its arguments [df, origin, target, return_names]
    frame_df,           \* the caller's DataFrame as map_dataframe leaves it
    frame_origin,       \* its local origin
    frame_mapping,      \* the slot of create_mapping's fetch
    frame_result,       \* what map_dataframe returned or raised
    snap_pc,            \* position of a _find_closest_official_gemeindestand call
    snap_args,          \* its arguments [given_date, prefer]
    snap_result         \* the date it returned

findVars == <<find_pc, find_df, gemeinde_set, num_gmde, wrong_codes_dict, find_result>>
multiVars == <<multi_pc, multi_args, multi_origin, multi_targets, earliest_date,
               tasks, mappings, failed, overtaken, fold_i, full_mapping, start_date,
               multi_result>>
projVars == <<proj_pc, proj_run, caller_df, proj_df, newest, origins, proj_mappings,
              proj_failed, proj_i, first_output, proj_result>>
catalogVars == <<data, gmde_dct>>
matchVars == <<officials, config, match_pc, match_query, query_normalized,
               match_candidates, match_scores, match_result>>
frameVars == <<frame_pc, frame_args, frame_df, frame_origin, frame_mapping, frame_result>>
snapVars == <<snap_pc, snap_args, snap_result>>
vars == <<data, gmde_dct, service, findVars, multiVars, projVars, matchVars, frameVars,
          snapVars>>

----------------------------------------------------------------------------
(* Bounds of the model *)

\* rows of a caller DataFrame handed to find_gemeindestand
MaxRows == 3
\* states (Gemeindestaende) of the catalog the State Identifier searches
NumStates == 2

----------------------------------------------------------------------------
(* Sequences and dicts *)

Range(s) == {s[i] : i \in 1..Len(s)}

SeqsUpTo(S, n) == UNION {[1..k -> S] : k \in 0..n}

EmptyDict == <<>>

Keys(d) == DOMAIN d

\* dict.get(key, default)
DictGet(d, key, default) == IF key \in DOMAIN d THEN d[key] ELSE default

----------------------------------------------------------------------------
(* Dates: datetime.strptime(s, "%d-%m-%Y") and datetime.strftime("%d-%m-%Y") *)

IsLeap(y) == (y % 4 = 0 /\ y % 100 # 0) \/ y % 400 = 0

DaysBeforeMonth(m, y) ==
    LET cum == <<0, 31, 59, 90, 120, 151, 181, 212, 243, 273, 304, 334>>
    IN  cum[m] + (IF m > 2 /\ IsLeap(y) THEN 1 ELSE 0)

DaysBeforeYear(y) ==
    LET p == y - 1 IN p * 365 + (p \div 4) - (p \div 100) + (p \div 400)

\* the day number of the date d-m-y
DayNumber(s) == DaysBeforeYear(s[3]) + DaysBeforeMonth(s[2], s[3]) + s[1]

\* the official dates of the catalog (chronological, as _fetch_base_data sorts them)
OfficialDates == << <<1, 7, 1999>>, <<15, 3, 2000>>, <<1, 1, 2001>>, <<10, 1, 2002>> >>

\* a date between the first two official dates, nearer to the second
UnofficialDates == { <<20, 2, 2000>> }

DateStrings == Range(OfficialDates) \cup UnofficialDates

DayNumbers == [s \in DateStrings |-> DayNumber(s)]

\* datetime.strptime(date, "%d-%m-%Y"), as the proleptic day number
Strptime(s) == DayNumbers[s]

\* datetime.strftime("%d-%m-%Y")
Strftime(n) == CHOOSE s \in DateStrings : DayNumbers[s] = n

NoDate == <<0, 0, 0>>

----------------------------------------------------------------------------
(* The catalog (BaseMunicipalityData) *)

\* codes the authority has issued in some state, and their official names
CatalogCodes == {261, 262, 263}

OfficialName(code) ==
    CASE code = 261 -> "A"
      [] code = 262 -> "B"
      [] code = 263 -> "Alt-Dorf"
      [] OTHER -> "?"

\* codes a caller's data may hold: issued ones, a never-issued one below 7000,
\* a code of the lake / foreign range, a shared territory
InputCodes == CatalogCodes \cup {999, 999999, 2285}

CallerNames == {"A", "Alt-Dorf"}

\* dict(zip(snapshot['BfsCode'], snapshot['Name'])) of one snapshot
SnapshotDict(codes) == [c \in codes |-> OfficialName(c)]

\* self.data of _fetch_base_data: one row per date, anz_gmde = nunique of the codes
DataOf(dates, dct) ==
    [i \in 1..Len(dates) |->
        [gemeindestand |-> dates[i], anz_gmde |-> Cardinality(Keys(dct[dates[i]]))]]

\* self.all_historical_bfs_codes
all_historical_bfs_codes == UNION {Keys(gmde_dct[d]) : d \in DOMAIN gmde_dct}

\* self.data['gemeindestand'].tolist()
Gemeindestaende == [i \in 1..Len(data) |-> data[i].gemeindestand]

----------------------------------------------------------------------------
(* State Identifier: find_gemeindestand and its helpers *)

gmde_freie_geb == {2285, 2391, 5020, 5391, 5238, 5394, 6072, 6391}

\* first code of the lake / foreign-territory range
NonMunicipalFrom == 7000

\* a variant of the filter that keeps the lake / foreign range
CheckForUnpopulatedAreas_KeepsLakes(gset) ==
    gset \ {c \in gset : c \in gmde_freie_geb}

\* a variant of the filter that keeps the shared territories
CheckForUnpopulatedAreas_KeepsSharedTerritories(gset) ==
    gset \ {c \in gset : c >= NonMunicipalFrom}

CheckForUnpopulatedAreas(gset) ==
    LET shared_territories == {c \in gset : c \in gmde_freie_geb}
        s1 == gset \ shared_territories
        non_municipal_areas == {c \in s1 : c >= NonMunicipalFrom}
    IN  s1 \ non_municipal_areas

\* a check of the candidate that looks at nothing: every candidate passes
CheckGemeindestand_AnyCandidate(candidate, gset) == TRUE

CheckGemeindestand(candidate, gset) ==
    gset \ Keys(DictGet(gmde_dct, candidate, EmptyDict)) = {}

\* df.loc[df[code_column] == code, name_column].values[0]
FirstNameOf(df, code) ==
    df[CHOOSE i \in 1..Len(df) :
          /\ df[i].code = code
          /\ \A j \in 1..(i - 1) : df[j].code # code].name

\* {v: k for k, v in d.items()}: with a value held by several keys one of the
\* keys survives (the last in the dict's iteration order)
Inversions(d) ==
    LET vals == {d[k] : k \in DOMAIN d}
    IN  {f \in [vals -> DOMAIN d] : \A v \in vals : d[f[v]] = v}

CorrectWrongCodes(inferred_gmde_stand, wrong_dict) ==
    LET state_dct == DictGet(gmde_dct, inferred_gmde_stand, EmptyDict)
        correct_dict == CHOOSE f \in Inversions(state_dct) : TRUE
    IN  [w \in {wrong_dict[n] : n \in DOMAIN wrong_dict} |->
            LET name == CHOOSE n \in DOMAIN wrong_dict : wrong_dict[n] = w
            IN  DictGet(correct_dict, name, w)]

\* self.data[self.data['anz_gmde'] == num_gmde]['gemeindestand'].values
Candidates(n) ==
    LET sel == SelectSeq(data, LAMBDA r : r.anz_gmde = n)
    IN  [i \in 1..Len(sel) |-> sel[i].gemeindestand]

\* the first candidate, in catalog order, that holds every code of gset
FirstMatch(cands, gset) ==
    LET hits == {i \in 1..Len(cands) : CheckGemeindestand(cands[i], gset)}
    IN  IF hits = {} THEN NoDate
        ELSE cands[CHOOSE i \in hits : \A j \in hits : i <= j]

\* a scan from the oldest state on: the oldest state that holds every code of gset
InferGemeindestand_OldestFirst(gset) ==
    LET all == Gemeindestaende
        hits == {i \in 1..Len(all) : gset \ Keys(DictGet(gmde_dct, all[i], EmptyDict)) = {}}
    IN  IF hits = {} THEN NoDate
        ELSE all[CHOOSE i \in hits : \A j \in hits : i <= j]

\* _infer_gemeindestand: the newest state that holds every code of gset
InferGemeindestand(gset) ==
    LET all == Gemeindestaende
        hits == {i \in 1..Len(all) : gset \ Keys(DictGet(gmde_dct, all[i], EmptyDict)) = {}}
    IN  IF hits = {} THEN NoDate
        ELSE all[CHOOSE i \in hits : \A j \in hits : j <= i]

NoResult == [kind |-> "none", gemeindestand |-> NoDate, is_none |-> TRUE,
             corrections |-> EmptyDict]

Returned(stand, is_none, corrections) ==
    [kind |-> "return", gemeindestand |-> stand, is_none |-> is_none,
     corrections |-> corrections]

Raised(error) ==
    [kind |-> error, gemeindestand |-> NoDate, is_none |-> TRUE,
     corrections |-> EmptyDict]

\* find_gemeindestand reads the DataFrame through unique() of the code column and
\* through the first row of a code only: the rows are listed by ascending code
DataFrames ==
    {df \in SeqsUpTo([code : InputCodes, name : CallerNames], MaxRows) :
        \A i \in 1..(Len(df) - 1) : df[i].code <= df[i + 1].code}

\* lines 263-267: the unique codes, the reserved codes removed, the count taken
FindCall ==
    /\ find_pc = "idle"
    /\ \E df \in DataFrames :
          /\ find_df' = df
          /\ gemeinde_set' = CheckForUnpopulatedAreas({df[i].code : i \in 1..Len(df)})
    /\ num_gmde' = Cardinality(gemeinde_set')
    /\ find_pc' = "check_non_bfs"
    /\ UNCHANGED <<wrong_codes_dict, find_result, catalogVars, snapVars, service, matchVars, frameVars, multiVars, projVars>>

\* lines 270-272 and _check_for_non_bfs_codes: wrong_codes_dict is bound only
\* when a never-issued code is found; the return statement reads it either way
CheckForNonBfsCodes ==
    /\ find_pc = "check_non_bfs"
    /\ LET wrong_codes == gemeinde_set \ all_historical_bfs_codes
       IN  IF Cardinality(wrong_codes) > 0
           THEN /\ gemeinde_set' = gemeinde_set \ wrong_codes
                /\ wrong_codes_dict' = [c \in wrong_codes |-> FirstNameOf(find_df, c)]
                /\ find_pc' = "candidates"
                /\ UNCHANGED find_result
           ELSE /\ find_result' = Raised("UnboundLocalError")
                /\ find_pc' = "raised"
                /\ UNCHANGED <<gemeinde_set, wrong_codes_dict>>
    /\ UNCHANGED <<find_df, num_gmde, catalogVars, snapVars, service, matchVars, frameVars, multiVars, projVars>>

\* lines 274-286: the search by municipality count
SearchByCount ==
    /\ find_pc = "candidates"
    /\ LET candidates == Candidates(num_gmde)
           hit == IF Len(candidates) = 1
                  THEN (IF CheckGemeindestand(candidates[1], gemeinde_set)
                        THEN candidates[1] ELSE NoDate)
                  ELSE IF Len(candidates) > 1
                  THEN FirstMatch(candidates, gemeinde_set)
                  ELSE NoDate
       IN  IF hit # NoDate
           THEN /\ find_result' = Returned(hit, TRUE, EmptyDict)
                /\ find_pc' = "returned"
           ELSE /\ find_pc' = "infer"
                /\ UNCHANGED find_result
    /\ UNCHANGED <<find_df, gemeinde_set, num_gmde, wrong_codes_dict, catalogVars, snapVars, service, matchVars, frameVars, multiVars, projVars>>

\* lines 288-296: the backward scan and the correction
InferAndCorrect ==
    /\ find_pc = "infer"
    /\ LET candidate == InferGemeindestand(gemeinde_set)
       IN  IF candidate # NoDate
           THEN /\ \E wrong_dict \in Inversions(wrong_codes_dict) :
                      find_result' =
                          Returned(candidate, FALSE, CorrectWrongCodes(candidate, wrong_dict))
                /\ find_pc' = "returned"
           ELSE /\ find_result' = Raised("ValueError")
                /\ find_pc' = "raised"
    /\ UNCHANGED <<find_df, gemeinde_set, num_gmde, wrong_codes_dict, catalogVars, snapVars, service, matchVars, frameVars, multiVars, projVars>>

----------------------------------------------------------------------------
(* Date snapping: _nearest and _find_closest_official_gemeindestand *)

Abs(x) == IF x < 0 THEN 0 - x ELSE x

MaxOf(S) == CHOOSE x \in S : \A y \in S : y <= x

MinOf(S) == CHOOSE x \in S : \A y \in S : x <= y

\* min(seq, key=...): the first element that has the least key, keys[i] the
\* key of seq[i]
MinByKey(seq, keys) ==
    seq[CHOOSE i \in 1..Len(seq) :
           /\ \A j \in 1..Len(seq) : keys[i] <= keys[j]
           /\ \A j \in 1..(i - 1) : keys[j] # keys[i]]

\* _nearest answering with the nearest date whatever the preference
Nearest_AlwaysNearest(official_gemeindestaende, target, prefer) ==
    Strftime(MinByKey(official_gemeindestaende,
                      [i \in 1..Len(official_gemeindestaende) |->
                          Abs(official_gemeindestaende[i] - target)]))

Nearest(official_gemeindestaende, target, prefer) ==
    LET nearest == MinByKey(official_gemeindestaende,
                            [i \in 1..Len(official_gemeindestaende) |->
                                Abs(official_gemeindestaende[i] - target)])
        smaller_dates == {d \in Range(official_gemeindestaende) : d <= target}
        larger_dates == {d \in Range(official_gemeindestaende) : d >= target}
        closest ==
            CASE prefer = "nearest" -> nearest
              [] prefer = "smaller" ->
                    IF smaller_dates = {} THEN nearest ELSE MaxOf(smaller_dates)
              [] prefer = "larger" ->
                    IF larger_dates = {} THEN nearest ELSE MinOf(larger_dates)
    IN  Strftime(closest)

FindClosestOfficialGemeindestand(given_date, prefer) ==
    IF given_date \in Range(Gemeindestaende)
    THEN given_date
    ELSE Nearest([i \in 1..Len(Gemeindestaende) |-> Strptime(Gemeindestaende[i])],
                 Strptime(given_date), prefer)

\* the values of the parameter prefer that _nearest accepts
Preferences == {"nearest", "smaller", "larger"}

\* a call of _find_closest_official_gemeindestand
SnapCall ==
    /\ snap_pc = "idle"
    /\ \E given_date \in DateStrings, prefer \in Preferences :
          /\ snap_args' = [given_date |-> given_date, prefer |-> prefer]
          /\ snap_result' = FindClosestOfficialGemeindestand(given_date, prefer)
    /\ snap_pc' = "returned"
    /\ UNCHANGED <<data, gmde_dct, service, findVars, multiVars, projVars, matchVars,
                   frameVars>>

SnapIdle ==
    /\ snap_pc = "idle"
    /\ snap_args = [given_date |-> NoDate, prefer |-> "nearest"]
    /\ snap_result = NoDate

\* list.index(x)
IndexOf(seq, x) ==
    CHOOSE i \in 1..Len(seq) : seq[i] = x /\ \A j \in 1..(i - 1) : seq[j] # x

\* sorted(S) of a set of numbers
RECURSIVE Sorted(_)
Sorted(S) == IF S = {} THEN <<>> ELSE <<MinOf(S)>> \o Sorted(S \ {MinOf(S)})

----------------------------------------------------------------------------
(* Tables *)

\* a missing cell of a code column and of a name column
NaNCode == 0 - 1
NaNName == "NaN"

CodeCol(date) == [field |-> "bfs_gmde_code", date |-> date]
NameCol(date) == [field |-> "bfs_gmde_name", date |-> date]

NaNOf(col) == IF col.field = "bfs_gmde_name" THEN NaNName ELSE NaNCode

NoneTable == [is_none |-> TRUE, cols |-> <<>>, rows |-> <<>>]

Table(cols, rows) == [is_none |-> FALSE, cols |-> cols, rows |-> rows]

RECURSIVE Flatten(_)
Flatten(seqs) == IF Len(seqs) = 0 THEN <<>> ELSE Head(seqs) \o Flatten(Tail(seqs))

\* a left row without a match is dropped instead of being filled with NaN
MergedRows_DropsUnmatched(l, right, on) ==
    LET new_cols == {c \in Range(right.cols) : c \notin on}
        matches == SelectSeq(right.rows, LAMBDA r : \A k \in on : r[k] = l[k])
    IN  [j \in 1..Len(matches) |-> l @@ [c \in new_cols |-> matches[j][c]]]

\* the rows a left row becomes in left.merge(right, on=on, how='left')
MergedRows(l, right, on) ==
    LET new_cols == {c \in Range(right.cols) : c \notin on}
        matches == SelectSeq(right.rows, LAMBDA r : \A k \in on : r[k] = l[k])
    IN  IF Len(matches) = 0
        THEN << l @@ [c \in new_cols |-> NaNOf(c)] >>
        ELSE [j \in 1..Len(matches) |-> l @@ [c \in new_cols |-> matches[j][c]]]

\* an inner join in place of the left join: unmatched rows are dropped
Merge_Inner(left, right, on) ==
    Table(left.cols \o SelectSeq(right.cols, LAMBDA c : c \notin on),
          Flatten([i \in 1..Len(left.rows) |->
              LET new_cols == {c \in Range(right.cols) : c \notin on}
                  matches == SelectSeq(right.rows,
                                 LAMBDA r : \A k \in on : r[k] = left.rows[i][k])
              IN  [j \in 1..Len(matches) |->
                      left.rows[i] @@ [c \in new_cols |-> matches[j][c]]]]))

\* left.merge(right, on=on, how='left')
Merge(left, right, on) ==
    Table(left.cols \o SelectSeq(right.cols, LAMBDA c : c \notin on),
          Flatten([i \in 1..Len(left.rows) |-> MergedRows(left.rows[i], right, on)]))

\* lines 436-443: the four columns of a fetched table, renamed by date
RenameHop(mapping, first_date, second_date) ==
    Table(<<CodeCol(first_date), NameCol(first_date),
            CodeCol(second_date), NameCol(second_date)>>,
          [i \in 1..Len(mapping) |->
              (CodeCol(first_date) :> mapping[i].InitialCode)
              @@ (NameCol(first_date) :> mapping[i].InitialName)
              @@ (CodeCol(second_date) :> mapping[i].TerminalCode)
              @@ (NameCol(second_date) :> mapping[i].TerminalName)])

\* lines 456-459: full_mapping.drop(columns=[col for col in columns if "name" in col])
DropNames(t) ==
    LET kept == SelectSeq(t.cols, LAMBDA c : c.field # "bfs_gmde_name")
    IN  Table(kept, [i \in 1..Len(t.rows) |-> [c \in Range(kept) |-> t.rows[i][c]]])

----------------------------------------------------------------------------
(* The authority's correspondence service, as _fetch_mapping sees it *)

\* the states of the catalog the Composer and the Projector work on
MapDct ==
    (OfficialDates[1] :> SnapshotDict({261, 262}))
    @@ (OfficialDates[2] :> SnapshotDict({261, 262, 263}))
    @@ (OfficialDates[3] :> SnapshotDict({261, 263}))
    @@ (OfficialDates[4] :> SnapshotDict({261, 263}))

\* how the codes of one official state became the codes of the next:
\* 261 is split, then 262 is merged into 261, then nothing changes
Lineage ==
    << {<<261, 261>>, <<261, 263>>, <<262, 262>>},
       {<<261, 261>>, <<262, 261>>, <<263, 263>>},
       {<<261, 261>>, <<263, 263>>} >>

EdgeSeq(E) ==
    CHOOSE s \in [1..Cardinality(E) -> E] :
        \A i, j \in 1..Cardinality(E) :
            i < j => \/ s[i][1] < s[j][1]
                     \/ (s[i][1] = s[j][1] /\ s[i][2] < s[j][2])

\* the edges of step `step`, the service leaving out row `omit` (0: none)
StepEdges(step, omit) ==
    LET full == EdgeSeq(Lineage[step])
    IN  {full[i] : i \in (1..Len(full)) \ {omit}}

RECURSIVE PathEdges(_, _, _)
PathEdges(steps, from, to) ==
    IF to = from + 1 THEN steps[from]
    ELSE LET before == PathEdges(steps, from, to - 1)
         IN  {<<e[1], f[2]>> : <<e, f>> \in {p \in before \X steps[to - 1] : p[1][2] = p[2][1]}}

\* the CSV the service answers for (origin, target), parsed
Response(steps, from, to) ==
    LET edges == EdgeSeq(PathEdges(steps, from, to))
    IN  [i \in 1..Len(edges) |->
            [InitialCode |-> edges[i][1], InitialName |-> OfficialName(edges[i][1]),
             TerminalCode |-> edges[i][2], TerminalName |-> OfficialName(edges[i][2])]]

\* which row of which step the service leaves out: at most one row over all steps
Omissions ==
    {o \in [1..Len(Lineage) -> 0..3] :
        /\ \A k \in 1..Len(Lineage) : o[k] <= Cardinality(Lineage[k])
        /\ Cardinality({k \in 1..Len(Lineage) : o[k] # 0}) <= 1}

OfficialPairs ==
    {<<OfficialDates[q[1]], OfficialDates[q[2]]>> :
        q \in {r \in (1..Len(OfficialDates)) \X (1..Len(OfficialDates)) : r[1] < r[2]}}

\* the tables of every service, by what it leaves out and by <<origin, target>>
Worlds ==
    [omit \in Omissions |->
        [p \in OfficialPairs |->
            Response([k \in 1..Len(Lineage) |-> StepEdges(k, omit[k])],
                     IndexOf(OfficialDates, p[1]), IndexOf(OfficialDates, p[2]))]]

NoService == [k \in 1..Len(Lineage) |-> 0]

\* the correspondence tables of the service in use, by <<origin, target>>
corr == Worlds[service]

----------------------------------------------------------------------------
(* Mapping Composer: create_multi_mapping *)

\* dates in a target list handed to create_multi_mapping
MaxTargets == 3

TargetSpecs ==
    {[kind |-> "list", dates |-> l] : l \in SeqsUpTo(DateStrings, MaxTargets)}
    \cup {[kind |-> "tuple", dates |-> l] : l \in [1..2 -> DateStrings]}
    \cup {[kind |-> "tuple", dates |-> <<OfficialDates[1]>>],
          [kind |-> "tuple", dates |-> <<OfficialDates[1], OfficialDates[2], OfficialDates[3]>>],
          [kind |-> "str", dates |-> <<OfficialDates[2]>>]}

Pending == [done |-> FALSE, table |-> <<>>]
Fetched(table) == [done |-> TRUE, table |-> table]

NoMultiResult == [kind |-> "none", table |-> NoneTable]

\* a range taken from the first and the last date of a tuple of any length
ValidateAndTransformTargets_NoLengthCheck(targets) ==
    CASE targets.kind = "tuple" ->
            LET start == FindClosestOfficialGemeindestand(targets.dates[1], "smaller")
                end == FindClosestOfficialGemeindestand(
                           targets.dates[Len(targets.dates)], "larger")
                start_index == IndexOf(Gemeindestaende, start)
                end_index == IndexOf(Gemeindestaende, end) + 1
            IN  [error |-> "",
                 targets |-> IF start_index <= end_index - 1
                             THEN SubSeq(Gemeindestaende, start_index, end_index - 1)
                             ELSE <<>>]
      [] targets.kind = "list" ->
            [error |-> "",
             targets |-> [i \in 1..Len(targets.dates) |->
                             FindClosestOfficialGemeindestand(targets.dates[i], "nearest")]]
      [] OTHER -> [error |-> "TypeError", targets |-> <<>>]

\* a range whose end index misses the + 1 of line 375: the end state is left out
ValidateAndTransformTargets_ExclusiveEnd(targets) ==
    CASE targets.kind = "tuple" ->
            IF Len(targets.dates) # 2
            THEN [error |-> "AssertionError", targets |-> <<>>]
            ELSE LET start == FindClosestOfficialGemeindestand(targets.dates[1], "smaller")
                     end == FindClosestOfficialGemeindestand(targets.dates[2], "larger")
                     start_index == IndexOf(Gemeindestaende, start)
                     end_index == IndexOf(Gemeindestaende, end) - 1
                 IN  [error |-> "",
                      targets |-> IF start_index <= end_index
                                  THEN SubSeq(Gemeindestaende, start_index, end_index)
                                  ELSE <<>>]
      [] targets.kind = "list" ->
            [error |-> "",
             targets |-> [i \in 1..Len(targets.dates) |->
                             FindClosestOfficialGemeindestand(targets.dates[i], "nearest")]]
      [] OTHER -> [error |-> "TypeError", targets |-> <<>>]

\* _validate_and_transform_targets: the list of targets, or the error raised
ValidateAndTransformTargets(targets) ==
    CASE targets.kind = "tuple" ->
            IF Len(targets.dates) # 2
            THEN [error |-> "AssertionError", targets |-> <<>>]
            ELSE LET start == FindClosestOfficialGemeindestand(targets.dates[1], "smaller")
                     end == FindClosestOfficialGemeindestand(targets.dates[2], "larger")
                     start_index == IndexOf(Gemeindestaende, start)
                     end_index == IndexOf(Gemeindestaende, end)
                 IN  [error |-> "",
                      targets |-> IF start_index <= end_index
                                  THEN SubSeq(Gemeindestaende, start_index, end_index)
                                  ELSE <<>>]
      [] targets.kind = "list" ->
            [error |-> "",
             targets |-> [i \in 1..Len(targets.dates) |->
                             FindClosestOfficialGemeindestand(targets.dates[i], "nearest")]]
      [] OTHER -> [error |-> "TypeError", targets |-> <<>>]

\* lines 410-413: sorted([strptime(date) for date in set(targets)])
SortedDatetimes(targets) == Sorted({Strptime(d) : d \in Range(targets)})

\* every fetch from the earliest date instead of from the date before
TasksOf_FromTheEarliest(date_strings) ==
    [i \in 1..(Len(date_strings) - 1) |->
        <<Strftime(date_strings[1]), Strftime(date_strings[i + 1])>>]

\* lines 417-426: one fetch per consecutive pair of the sorted dates
TasksOf(date_strings) ==
    [i \in 1..(Len(date_strings) - 1) |->
        <<Strftime(date_strings[i]), Strftime(date_strings[i + 1])>>]

\* lines 407-426: the arguments resolved, the fetches handed to asyncio.gather
MultiStart(origin, targets, return_names) ==
    LET snapped == FindClosestOfficialGemeindestand(origin, "smaller")
        valid == ValidateAndTransformTargets(targets)
        date_strings == SortedDatetimes(Append(valid.targets, snapped))
    IN  /\ multi_args' = [origin |-> origin, targets |-> targets,
                          return_names |-> return_names]
        /\ multi_origin' = snapped
        /\ IF valid.error # ""
           THEN /\ multi_pc' = "raised"
                /\ multi_result' = [kind |-> valid.error, table |-> NoneTable]
                /\ UNCHANGED <<multi_targets, earliest_date, tasks, mappings>>
           ELSE /\ multi_pc' = "gather"
                /\ earliest_date' = date_strings[1]
                /\ multi_targets' = Tail(date_strings)
                /\ tasks' = TasksOf(date_strings)
                /\ mappings' = [i \in 1..(Len(date_strings) - 1) |-> Pending]
                /\ UNCHANGED multi_result

\* a call of create_multi_mapping by the caller
MultiCall ==
    /\ multi_pc = "idle"
    /\ proj_pc = "idle"
    /\ \E origin \in DateStrings, targets \in TargetSpecs, return_names \in BOOLEAN :
          MultiStart(origin, targets, return_names)
    /\ UNCHANGED <<failed, overtaken, fold_i, full_mapping, start_date,
                   catalogVars, snapVars, service, matchVars, frameVars, findVars, projVars>>

\* a fetch whose result arrives in the slot of another task
GatherSlot_ByCompletion(i) ==
    CHOOSE k \in 1..Len(mappings) :
        /\ ~mappings[k].done
        /\ \A j \in 1..(k - 1) : mappings[j].done

\* asyncio.gather keeps each result at the position of its awaitable
GatherSlot(i) == i

\* _fetch_mapping of one task returns: its table is kept for the fold
MultiFetchComplete ==
    /\ multi_pc = "gather"
    /\ \E i \in 1..Len(tasks) :
          /\ ~mappings[i].done
          /\ ~mappings[GatherSlot(i)].done
          /\ mappings' = [mappings EXCEPT ![GatherSlot(i)] = Fetched(corr[tasks[i]])]
          /\ overtaken' = (overtaken \/ \E j \in 1..(i - 1) : ~mappings[j].done)
    /\ UNCHANGED <<multi_pc, multi_args, multi_origin, multi_targets, earliest_date, tasks,
                   failed, fold_i, full_mapping, start_date, multi_result,
                   catalogVars, snapVars, service, matchVars, frameVars, findVars, projVars>>

\* a gather that keeps going after a failure, an empty table in the failed slot
MultiFetchFail_Suppressed ==
    /\ multi_pc = "gather"
    /\ \E i \in 1..Len(tasks) :
          /\ ~mappings[i].done
          /\ failed' = failed \cup {i}
          /\ mappings' = [mappings EXCEPT ![i] = Fetched(<<>>)]
    /\ UNCHANGED <<multi_pc, multi_args, multi_origin, multi_targets, earliest_date, tasks,
                   overtaken, fold_i, full_mapping, start_date, multi_result,
                   catalogVars, snapVars, service, matchVars, frameVars, findVars, projVars>>

\* _fetch_mapping of one task raises: asyncio.gather raises it to the caller
MultiFetchFail ==
    /\ multi_pc = "gather"
    /\ \E i \in 1..Len(tasks) :
          /\ ~mappings[i].done
          /\ failed' = failed \cup {i}
    /\ multi_pc' = "raised"
    /\ multi_result' = [kind |-> "FetchFailed", table |-> NoneTable]
    /\ UNCHANGED <<multi_args, multi_origin, multi_targets, earliest_date, tasks, mappings,
                   overtaken, fold_i, full_mapping, start_date,
                   catalogVars, snapVars, service, matchVars, frameVars, findVars, projVars>>

\* lines 428-432: every fetch has returned, the fold starts
MultiGathered ==
    /\ multi_pc = "gather"
    /\ \A i \in 1..Len(tasks) : mappings[i].done
    /\ multi_pc' = "fold"
    /\ full_mapping' = NoneTable
    /\ start_date' = Strftime(earliest_date)
    /\ fold_i' = 0
    /\ UNCHANGED <<multi_args, multi_origin, multi_targets, earliest_date, tasks, mappings,
                   failed, overtaken, multi_result, catalogVars, snapVars, service, matchVars, frameVars, findVars, projVars>>

\* lines 433-454: one iteration of the fold
MultiFoldStep ==
    /\ multi_pc = "fold"
    /\ fold_i < Len(mappings)
    /\ LET i == fold_i + 1
           target == Strftime(multi_targets[i])
           mapping == RenameHop(mappings[i].table, start_date, target)
       IN  /\ full_mapping' =
                  IF full_mapping.is_none THEN mapping
                  ELSE Merge(full_mapping, mapping, {CodeCol(start_date), NameCol(start_date)})
           /\ start_date' = target
           /\ fold_i' = i
    /\ UNCHANGED <<multi_pc, multi_args, multi_origin, multi_targets, earliest_date, tasks,
                   mappings, failed, overtaken, multi_result,
                   catalogVars, snapVars, service, matchVars, frameVars, findVars, projVars>>

\* lines 456-460: the name columns dropped on request, the table returned
MultiReturn ==
    /\ multi_pc = "fold"
    /\ fold_i = Len(mappings)
    /\ IF ~multi_args.return_names /\ full_mapping.is_none
       THEN /\ multi_pc' = "raised"
            /\ multi_result' = [kind |-> "AttributeError", table |-> NoneTable]
       ELSE /\ multi_pc' = "returned"
            /\ multi_result' =
                   [kind |-> "return",
                    table |-> IF multi_args.return_names THEN full_mapping
                              ELSE DropNames(full_mapping)]
    /\ UNCHANGED <<multi_args, multi_origin, multi_targets, earliest_date, tasks, mappings,
                   failed, overtaken, fold_i, full_mapping, start_date,
                   catalogVars, snapVars, service, matchVars, frameVars, findVars, projVars>>

\* the call has ended and its locals are gone: the mapper object keeps nothing
\* of it, and the caller may call again
MultiAgain ==
    /\ multi_pc \in {"returned", "raised"}
    /\ frame_pc = "idle"
    /\ multi_pc' = "idle"
    /\ multi_args' = [origin |-> NoDate, targets |-> [kind |-> "list", dates |-> <<>>],
                      return_names |-> TRUE]
    /\ multi_origin' = NoDate
    /\ multi_targets' = <<>>
    /\ earliest_date' = 0
    /\ tasks' = <<>>
    /\ mappings' = <<>>
    /\ failed' = {}
    /\ overtaken' = FALSE
    /\ fold_i' = 0
    /\ full_mapping' = NoneTable
    /\ start_date' = NoDate
    /\ multi_result' = NoMultiResult
    /\ UNCHANGED <<data, gmde_dct, service, snapVars, matchVars, frameVars, findVars,
                   projVars>>

MultiIdle ==
    /\ multi_pc = "idle"
    /\ multi_args = [origin |-> NoDate, targets |-> [kind |-> "list", dates |-> <<>>],
                     return_names |-> TRUE]
    /\ multi_origin = NoDate
    /\ multi_targets = <<>>
    /\ earliest_date = 0
    /\ tasks = <<>>
    /\ mappings = <<>>
    /\ failed = {}
    /\ overtaken = FALSE
    /\ fold_i = 0
    /\ full_mapping = NoneTable
    /\ start_date = NoDate
    /\ multi_result = NoMultiResult

----------------------------------------------------------------------------
(* Newest-State Projector: map_multiple_gemeindestaende_to_newest *)

\* rows of a dataset handed to map_multiple_gemeindestaende_to_newest
MaxProjRows == 3

NaNDate == NoDate

CodeColumn == [field |-> "code_column", date |-> NoDate]
StandColumn == [field |-> "stand_column", date |-> NoDate]
UpdateCol(date) == [field |-> "bfs_gmde_code_update", date |-> date]

\* a row of the caller's dataset: a code or none, as of an official state or of none
ProjRows ==
    {<<261, OfficialDates[1]>>, <<263, OfficialDates[1]>>,
     <<261, OfficialDates[2]>>, <<NaNCode, OfficialDates[2]>>,
     <<261, OfficialDates[3]>>, <<263, OfficialDates[3]>>,
     <<261, NaNDate>>}

ProjDataFrames ==
    {Table(<<CodeColumn, StandColumn>>,
           [i \in 1..Len(rows) |->
               (CodeColumn :> rows[i][1]) @@ (StandColumn :> rows[i][2])]) :
     rows \in SeqsUpTo(ProjRows, MaxProjRows)}

NoProjResult == [kind |-> "none", table |-> NoneTable]

\* df[col] = values: the column is added at the end when df has none of the name
SetColumn(df, col, values) ==
    Table(IF col \in Range(df.cols) THEN df.cols ELSE Append(df.cols, col),
          [i \in 1..Len(df.rows) |-> (col :> values[i]) @@ df.rows[i]])

\* df.drop(columns=[col])
DropColumn(df, col) ==
    LET kept == SelectSeq(df.cols, LAMBDA c : c # col)
    IN  Table(kept, [i \in 1..Len(df.rows) |-> [c \in Range(kept) |-> df.rows[i][c]]])

\* the catalog's dates in place of the as-of values of the data
StandsOf_AllCatalogStates(df) == Gemeindestaende

\* lines 540-545: the as-of values present, sorted by date
StandsOf(df) ==
    LET present == {df.rows[i][StandColumn] : i \in 1..Len(df.rows)} \ {NaNDate}
        sorted == Sorted({Strptime(d) : d \in present})
    IN  [i \in 1..Len(sorted) |-> CHOOSE d \in present : Strptime(d) = sorted[i]]

\* the projected column initialised with the null value instead of 0
Prepared_NullColumn(df, newest_date) ==
    SetColumn(SetColumn(df, CodeCol(newest_date), [i \in 1..Len(df.rows) |-> NaNCode]),
              CodeColumn,
              [i \in 1..Len(df.rows) |->
                  IF df.rows[i][CodeColumn] = NaNCode THEN 0 ELSE df.rows[i][CodeColumn]])

\* lines 547-548: the projected column set to 0, the missing codes to 0
Prepared(df, newest_date) ==
    SetColumn(SetColumn(df, CodeCol(newest_date), [i \in 1..Len(df.rows) |-> 0]),
              CodeColumn,
              [i \in 1..Len(df.rows) |->
                  IF df.rows[i][CodeColumn] = NaNCode THEN 0 ELSE df.rows[i][CodeColumn]])

\* lines 557-564: the fetched table as the merge sees it
UpdateTable(mapping, origin, newest_date) ==
    Table(<<CodeColumn, UpdateCol(newest_date), StandColumn>>,
          [i \in 1..Len(mapping) |->
              (CodeColumn :> mapping[i].InitialCode)
              @@ (UpdateCol(newest_date) :> mapping[i].TerminalCode)
              @@ (StandColumn :> origin)])

\* a merge on the code alone: a mapping reaches the rows of every as-of state
MergeUpdate_OnCodeOnly(df, mapping, origin, newest_date) ==
    LET update == UpdateTable(mapping, origin, newest_date)
        merged == Merge(df, DropColumn(update, StandColumn), {CodeColumn})
        updated == SetColumn(merged, CodeCol(newest_date),
                       [i \in 1..Len(merged.rows) |->
                           IF merged.rows[i][UpdateCol(newest_date)] # NaNCode
                           THEN merged.rows[i][UpdateCol(newest_date)]
                           ELSE merged.rows[i][CodeCol(newest_date)]])
    IN  DropColumn(updated, UpdateCol(newest_date))

\* the update written to every row, the missing ones too
MergeUpdate_OverwritesWithMissing(df, mapping, origin, newest_date) ==
    LET merged == Merge(df, UpdateTable(mapping, origin, newest_date),
                        {StandColumn, CodeColumn})
        updated == SetColumn(merged, CodeCol(newest_date),
                       [i \in 1..Len(merged.rows) |->
                           merged.rows[i][UpdateCol(newest_date)]])
    IN  DropColumn(updated, UpdateCol(newest_date))

\* lines 566-569: the merge on (as-of, code), the update where one was found
MergeUpdate(df, mapping, origin, newest_date) ==
    LET merged == Merge(df, UpdateTable(mapping, origin, newest_date),
                        {StandColumn, CodeColumn})
        updated == SetColumn(merged, CodeCol(newest_date),
                       [i \in 1..Len(merged.rows) |->
                           IF merged.rows[i][UpdateCol(newest_date)] # NaNCode
                           THEN merged.rows[i][UpdateCol(newest_date)]
                           ELSE merged.rows[i][CodeCol(newest_date)]])
    IN  DropColumn(updated, UpdateCol(newest_date))

\* line 571: the rows of the newest state carry their own code
CopyNewest(df, newest_date) ==
    SetColumn(df, CodeCol(newest_date),
        [i \in 1..Len(df.rows) |->
            IF df.rows[i][StandColumn] = newest_date THEN df.rows[i][CodeColumn]
            ELSE df.rows[i][CodeCol(newest_date)]])

\* lines 540-553 on the DataFrame df
ProjStart(df, run) ==
    LET date_strings == StandsOf(df)
        newest_date == date_strings[Len(date_strings)]
    IN  /\ proj_run' = run
        /\ IF Len(date_strings) = 0
           THEN /\ proj_pc' = "raised"
                /\ proj_result' = [kind |-> "IndexError", table |-> NoneTable]
                /\ caller_df' = df
                /\ proj_df' = df
                /\ UNCHANGED <<newest, origins, proj_mappings>>
           ELSE /\ proj_pc' = "gather"
                /\ newest' = newest_date
                /\ caller_df' = Prepared(df, newest_date)
                /\ proj_df' = Prepared(df, newest_date)
                /\ origins' = SubSeq(date_strings, 1, Len(date_strings) - 1)
                /\ proj_mappings' = [i \in 1..(Len(date_strings) - 1) |-> Pending]
                /\ proj_result' = NoProjResult
        /\ proj_failed' = {}
        /\ proj_i' = 0

ProjCall ==
    /\ proj_pc = "idle"
    /\ multi_pc = "idle"
    /\ \E df \in ProjDataFrames : ProjStart(df, 1)
    /\ UNCHANGED <<first_output, catalogVars, snapVars, service, matchVars, frameVars, findVars, multiVars>>

\* the caller runs the Projector again, on the table it returned
ProjRerun ==
    /\ proj_pc = "returned"
    /\ proj_run = 1
    /\ first_output' = proj_result.table
    /\ ProjStart(proj_result.table, 2)
    /\ UNCHANGED <<catalogVars, snapVars, service, matchVars, frameVars, findVars, multiVars>>

ProjFetchComplete ==
    /\ proj_pc = "gather"
    /\ \E i \in 1..Len(origins) :
          /\ ~proj_mappings[i].done
          /\ proj_mappings' =
                 [proj_mappings EXCEPT ![i] = Fetched(corr[<<origins[i], newest>>])]
    /\ UNCHANGED <<proj_pc, proj_run, caller_df, proj_df, newest, origins, proj_failed,
                   proj_i, first_output, proj_result, catalogVars, snapVars, service, matchVars, frameVars, findVars, multiVars>>

ProjFetchFail ==
    /\ proj_pc = "gather"
    /\ \E i \in 1..Len(origins) :
          /\ ~proj_mappings[i].done
          /\ proj_failed' = proj_failed \cup {i}
    /\ proj_pc' = "raised"
    /\ proj_result' = [kind |-> "FetchFailed", table |-> NoneTable]
    /\ UNCHANGED <<proj_run, caller_df, proj_df, newest, origins, proj_mappings, proj_i,
                   first_output, catalogVars, snapVars, service, matchVars, frameVars, findVars, multiVars>>

\* line 554 returns: every fetch has returned, the merge loop starts
ProjGathered ==
    /\ proj_pc = "gather"
    /\ \A i \in 1..Len(origins) : proj_mappings[i].done
    /\ proj_pc' = "fold"
    /\ UNCHANGED <<proj_run, caller_df, proj_df, newest, origins, proj_mappings,
                   proj_failed, proj_i, first_output, proj_result,
                   catalogVars, snapVars, service, matchVars, frameVars, findVars, multiVars>>

\* lines 556-569: one iteration of the merge loop
ProjFoldStep ==
    /\ proj_pc = "fold"
    /\ proj_i < Len(origins)
    /\ proj_df' = MergeUpdate(proj_df, proj_mappings[proj_i + 1].table,
                              origins[proj_i + 1], newest)
    /\ proj_i' = proj_i + 1
    /\ UNCHANGED <<proj_pc, proj_run, caller_df, newest, origins, proj_mappings,
                   proj_failed, first_output, proj_result,
                   catalogVars, snapVars, service, matchVars, frameVars, findVars, multiVars>>

\* lines 571-573: df is still the caller's object when no merge has rebound it
ProjReturn ==
    /\ proj_pc = "fold"
    /\ proj_i = Len(origins)
    /\ proj_df' = CopyNewest(proj_df, newest)
    /\ caller_df' = IF Len(origins) = 0 THEN CopyNewest(proj_df, newest) ELSE caller_df
    /\ proj_result' = [kind |-> "return", table |-> CopyNewest(proj_df, newest)]
    /\ proj_pc' = "returned"
    /\ UNCHANGED <<proj_run, newest, origins, proj_mappings, proj_failed, proj_i,
                   first_output, catalogVars, snapVars, service, matchVars, frameVars, findVars, multiVars>>

ProjIdle ==
    /\ proj_pc = "idle"
    /\ proj_run = 0
    /\ caller_df = NoneTable
    /\ proj_df = NoneTable
    /\ newest = NoDate
    /\ origins = <<>>
    /\ proj_mappings = <<>>
    /\ proj_failed = {}
    /\ proj_i = 0
    /\ first_output = NoneTable
    /\ proj_result = NoProjResult

----------------------------------------------------------------------------
(* map_dataframe, with create_mapping for a target that is one date        *)

\* rows of a DataFrame handed to map_dataframe
MaxFrameRows == 2

FrameRows ==
    {[code |-> 261, name |-> "A"], [code |-> 263, name |-> "Alt-Dorf"],
     [code |-> 999, name |-> "Alt-Dorf"], [code |-> 999, name |-> "A"]}

FrameDataFrames == {df \in SeqsUpTo(FrameRows, MaxFrameRows) : Len(df) > 0}

\* kwargs.get('origin', False): a date string, or the default False
NoOrigin == [given |-> FALSE, date |-> NoDate]
FrameOrigins == {NoOrigin} \cup {[given |-> TRUE, date |-> d] : d \in DateStrings}

\* kwargs.get('target', newest_gemeindestand): one date string, a list, a tuple,
\* or the default
FrameTargets ==
    {[kind |-> "default", dates |-> <<>>]}
    \cup {[kind |-> "str", dates |-> <<d>>] : d \in DateStrings}
    \cup {[kind |-> "list", dates |-> <<d>>] : d \in DateStrings}
    \cup {[kind |-> "list", dates |-> <<OfficialDates[2], OfficialDates[3]>>],
          [kind |-> "tuple", dates |-> <<OfficialDates[2], OfficialDates[4]>>]}

NoFrameArgs == [df |-> <<>>, origin |-> NoOrigin,
                target |-> [kind |-> "default", dates |-> <<>>], return_names |-> FALSE]

NoFrameResult == [kind |-> "none", table |-> NoneTable]

\* line 485: self.data.iat[-1, 0]
NewestGemeindestand == data[Len(data)].gemeindestand

\* line 487: the target the call works with
FrameTarget(args) ==
    IF args.target.kind = "default"
    THEN [kind |-> "str", dates |-> <<NewestGemeindestand>>]
    ELSE args.target

\* df[code_column].replace(corrections_dict)
ReplaceCodes(df, corrections_dict) ==
    [i \in 1..Len(df) |->
        [df[i] EXCEPT !.code = DictGet(corrections_dict, df[i].code, df[i].code)]]

\* lines 490-495: the never-issued codes of df, each with the name of its first row
FrameWrongCodes(df) ==
    LET gset == {df[i].code : i \in 1..Len(df)}
        wrong_codes == gset \ all_historical_bfs_codes
    IN  [c \in wrong_codes |-> FirstNameOf(df, c)]

\* lines 496-498: the never-issued codes corrected by name against the origin
\* the caller gave; wrong_dict is the inversion _correct_wrong_codes works with
CorrectedAgainst(df, origin, wrong_dict) ==
    IF DOMAIN wrong_dict = {} THEN df
    ELSE ReplaceCodes(df, CorrectWrongCodes(origin, wrong_dict))

\* the four columns of a table as the service sends it
RawColumns == <<[field |-> "InitialCode", date |-> NoDate],
                [field |-> "InitialName", date |-> NoDate],
                [field |-> "TerminalCode", date |-> NoDate],
                [field |-> "TerminalName", date |-> NoDate]>>

RawTable(mapping) ==
    Table(RawColumns,
          [i \in 1..Len(mapping) |->
              (RawColumns[1] :> mapping[i].InitialCode)
              @@ (RawColumns[2] :> mapping[i].InitialName)
              @@ (RawColumns[3] :> mapping[i].TerminalCode)
              @@ (RawColumns[4] :> mapping[i].TerminalName)])

FrameNameColumn == [field |-> "name_column", date |-> NoDate]

\* line 511: df.rename(columns={code_column: f'bfs_gmde_code_{origin}'})
RenamedFrame(df, origin) ==
    Table(<<CodeCol(origin), FrameNameColumn>>,
          [i \in 1..Len(df) |->
              (CodeCol(origin) :> df[i].code) @@ (FrameNameColumn :> df[i].name)])

\* lines 511-518: the rename and the left merge on the origin's code column
FrameMerge(df, origin, mapping) ==
    IF mapping.is_none
    THEN [kind |-> "TypeError", table |-> NoneTable]
    ELSE IF CodeCol(origin) \notin Range(mapping.cols)
    THEN [kind |-> "KeyError", table |-> NoneTable]
    ELSE [kind |-> "return",
          table |-> Merge(RenamedFrame(df, origin), mapping, {CodeCol(origin)})]

\* the service's table for a request; a request that goes from a state to itself
\* or back in time has no table in the model and is answered with no rows
ServiceAnswer(origin, target) ==
    IF <<origin, target>> \in DOMAIN corr THEN corr[<<origin, target>>] ELSE <<>>

\* lines 485-503: the arguments read; with an origin the never-issued codes are
\* corrected here, without one find_gemeindestand is called
FrameCall ==
    /\ frame_pc = "idle"
    /\ \E df \in FrameDataFrames, origin \in FrameOrigins, target \in FrameTargets,
          return_names \in BOOLEAN :
          /\ frame_args' = [df |-> df, origin |-> origin, target |-> target,
                            return_names |-> return_names]
          /\ IF origin.given
             THEN /\ \E wrong_dict \in Inversions(FrameWrongCodes(df)) :
                        frame_df' = CorrectedAgainst(df, origin.date, wrong_dict)
                  /\ frame_origin' = origin.date
                  /\ frame_pc' = "mapping"
                  /\ UNCHANGED findVars
             ELSE /\ frame_df' = df
                  /\ frame_origin' = NoDate
                  /\ frame_pc' = "find"
                  /\ find_df' = df
                  /\ gemeinde_set' =
                         CheckForUnpopulatedAreas({df[i].code : i \in 1..Len(df)})
                  /\ num_gmde' = Cardinality(gemeinde_set')
                  /\ find_pc' = "check_non_bfs"
                  /\ UNCHANGED <<wrong_codes_dict, find_result>>
    /\ UNCHANGED <<frame_mapping, frame_result, catalogVars, snapVars, service, matchVars,
                   multiVars, projVars>>

\* lines 500-503: find_gemeindestand has ended; its corrections are applied
FrameFound ==
    /\ frame_pc = "find"
    /\ find_pc \in {"returned", "raised"}
    /\ IF find_pc = "raised"
       THEN /\ frame_pc' = "raised"
            /\ frame_result' = [kind |-> find_result.kind, table |-> NoneTable]
            /\ UNCHANGED <<frame_df, frame_origin>>
       ELSE \* corrections_dict is None or a dict; an empty dict replaces nothing
            /\ frame_pc' = "mapping"
            /\ frame_origin' = find_result.gemeindestand
            /\ frame_df' = ReplaceCodes(frame_df, find_result.corrections)
            /\ UNCHANGED frame_result
    /\ UNCHANGED <<frame_args, frame_mapping, catalogVars, snapVars, service, matchVars,
                   findVars, multiVars, projVars>>

\* lines 505-509: create_multi_mapping for a list or a tuple, create_mapping
\* otherwise; create_mapping (lines 337-342) snaps both dates and issues one fetch
FrameMap ==
    /\ frame_pc = "mapping"
    /\ IF FrameTarget(frame_args).kind \in {"list", "tuple"}
       THEN /\ MultiStart(frame_origin, frame_args.target, frame_args.return_names)
            /\ frame_pc' = "multi"
            /\ UNCHANGED <<frame_mapping, failed, overtaken, fold_i, full_mapping,
                           start_date>>
       ELSE /\ frame_pc' = "fetch"
            /\ frame_mapping' = Pending
            /\ UNCHANGED multiVars
    /\ UNCHANGED <<frame_args, frame_df, frame_origin, frame_result, catalogVars, snapVars,
                   service, matchVars, findVars, projVars>>

\* lines 507, 511-518: create_multi_mapping has ended; its table is merged
FrameMultiDone ==
    /\ frame_pc = "multi"
    /\ multi_pc \in {"returned", "raised"}
    /\ IF multi_pc = "raised"
       THEN /\ frame_pc' = "raised"
            /\ frame_result' = [kind |-> multi_result.kind, table |-> NoneTable]
       ELSE LET res == FrameMerge(frame_df, frame_origin, multi_result.table)
            IN  /\ frame_result' = res
                /\ frame_pc' = IF res.kind = "return" THEN "returned" ELSE "raised"
    /\ UNCHANGED <<frame_args, frame_df, frame_origin, frame_mapping, catalogVars, snapVars,
                   service, matchVars, findVars, multiVars, projVars>>

\* lines 340-347 and 509-518: the fetch of create_mapping has answered; the
\* third argument, return_names, is create_mapping's export_path
FrameFetchComplete ==
    /\ frame_pc = "fetch"
    /\ LET origin == FindClosestOfficialGemeindestand(frame_origin, "smaller")
           target == FindClosestOfficialGemeindestand(
                         FrameTarget(frame_args).dates[1], "nearest")
           mapping == ServiceAnswer(origin, target)
           res == IF frame_args.return_names
                  THEN [kind |-> "TypeError", table |-> NoneTable]
                  ELSE FrameMerge(frame_df, frame_origin, RawTable(mapping))
       IN  /\ frame_mapping' = Fetched(mapping)
           /\ frame_result' = res
           /\ frame_pc' = IF res.kind = "return" THEN "returned" ELSE "raised"
    /\ UNCHANGED <<frame_args, frame_df, frame_origin, catalogVars, snapVars, service,
                   matchVars, findVars, multiVars, projVars>>

\* line 315: response.raise_for_status() in the fetch of create_mapping
FrameFetchFail ==
    /\ frame_pc = "fetch"
    /\ frame_pc' = "raised"
    /\ frame_result' = [kind |-> "FetchFailed", table |-> NoneTable]
    /\ UNCHANGED <<frame_args, frame_df, frame_origin, frame_mapping, catalogVars, snapVars,
                   service, matchVars, findVars, multiVars, projVars>>

FrameIdle ==
    /\ frame_pc = "idle"
    /\ frame_args = NoFrameArgs
    /\ frame_df = <<>>
    /\ frame_origin = NoDate
    /\ frame_mapping = Pending
    /\ frame_result = NoFrameResult

----------------------------------------------------------------------------
(* Name Matcher: MunicipalityNameMatcher.match_name                        *)
(* A string is the sequence of its characters.  The combined similarity    *)
(* of a query and a candidate comes from sklearn, thefuzz and jellyfish;   *)
(* the model takes any value of ScoreValues for it, in hundredths.         *)

bern == <<"b", "e", "r", "n">>
muri == <<"m", "u", "r", "i">>
berlin == <<"b", "e", "r", "l", "i", "n">>
paris == <<"p", "a", "r", "i", "s">>
de == <<"d", "e">>
fra == <<"f", "r", "a">>
zh == <<"z", "h">>
ag == <<"a", "g">>
xx == <<"x", "x">>
buchs == <<"b", "u", "c", "h", "s">>

Space == <<" ">>

Bracketed(text) == <<"(">> \o text \o <<")">>

\* the normalized queries handed to match_name
Queries ==
    {berlin, xx, bern, paris,
     berlin \o Space \o Bracketed(de),
     muri \o Space \o Bracketed(bern) \o Space \o Bracketed(de),
     muri \o Space \o Bracketed(de) \o Space \o Bracketed(bern),
     muri \o Space \o Bracketed(bern),
     muri \o Space \o Bracketed(zh),
     buchs \o Space \o Bracketed(zh),
     paris \o Space \o Bracketed(xx \o Space \o Bracketed(de)),
     fra \o Space \o paris,
     paris \o Space \o fra}

\* the official municipalities the matcher may hold, in the order of self.officials
AllOfficials ==
    << [id |-> 351, name |-> "Bern", normalized |-> bern],
       [id |-> 4236, name |-> "Muri (AG)", normalized |-> muri \o Space \o Bracketed(ag)],
       [id |-> 83, name |-> "Buchs (ZH)", normalized |-> buchs \o Space \o Bracketed(zh)] >>

\* the tables the matcher may hold: the TF-IDF fit of preprocess_officials needs
\* one official at least
OfficialTables ==
    {SelectSeq(AllOfficials, LAMBDA o : o.id \in ids) :
        ids \in (SUBSET {351, 4236, 83}) \ {{}}}

\* __init__: the configuration as the matcher keeps it; the false positives are
\* kept normalized, the names of the officials are not
Configs ==
    [foreign_country_codes : {{de}},
     additional_foreign_indicators : {{}, {fra}},
     false_positives : {{}, {"bern"}},
     common_mistakes : {EmptyDict, (berlin \o Space \o Bracketed(de)) :> bern}]

\* preprocess_officials: normalized without brackets
NoBrackets(text) == SelectSeq(text, LAMBDA c : c \notin {"(", ")"})

\* a result tuple (matched_id, matched_name, confidence); confidence in hundredths
MatchTuple(id, name, confidence) ==
    [id_is_none |-> FALSE, id |-> id, name |-> name, confidence |-> confidence]

NoneMatch == [id_is_none |-> TRUE, id |-> 0, name |-> "None", confidence |-> 0]

Foreign == MatchTuple(0 - 1, "None", 100)

Unmatched == MatchTuple(0, "None", 0)

NoMatchResult == [id_is_none |-> TRUE, id |-> 0, name |-> "none", confidence |-> 0]

\* self.exact_matches.get(key): the last official with that key, NoneMatch without one
ExactMatch(key) ==
    LET hits == {i \in 1..Len(officials) : NoBrackets(officials[i].normalized) = key}
    IN  IF hits = {} THEN NoneMatch
        ELSE LET o == officials[CHOOSE i \in hits : \A j \in hits : j <= i]
             IN  MatchTuple(o.id, o.name, 100)

\* re.findall(r'\((.*?)\)', text) from position pos on: the spans [from, to] of
\* the matches, each from a "(" to the first ")" after it
RECURSIVE BracketSpans(_, _)
BracketSpans(text, pos) ==
    LET opens == {i \in pos..Len(text) : text[i] = "("}
    IN  IF opens = {} THEN <<>>
        ELSE LET open == MinOf(opens)
                 closes == {j \in (open + 1)..Len(text) : text[j] = ")"}
             IN  IF closes = {} THEN <<>>
                 ELSE <<[from |-> open, to |-> MinOf(closes)]>>
                      \o BracketSpans(text, MinOf(closes) + 1)

\* text.strip()
RECURSIVE Strip(_)
Strip(text) ==
    IF Len(text) = 0 THEN text
    ELSE IF Head(text) = " " THEN Strip(Tail(text))
    ELSE IF text[Len(text)] = " " THEN Strip(SubSeq(text, 1, Len(text) - 1))
    ELSE text

\* re.sub(r'\(.*?\)', '', text).strip()
RemainingPart(text) ==
    LET spans == BracketSpans(text, 1)
        kept == {i \in 1..Len(text) :
                    \A k \in 1..Len(spans) : i < spans[k].from \/ i > spans[k].to}
        order == Sorted(kept)
    IN  Strip([k \in 1..Len(order) |-> text[order[k]]])

\* lines 264-271 for one bracketed match: the first lookup that knows it
LookupToken(stripped_match) ==
    IF stripped_match \in config.foreign_country_codes THEN Foreign
    ELSE IF stripped_match \in config.additional_foreign_indicators THEN Foreign
    ELSE ExactMatch(stripped_match)

\* lines 260-277: the result of the exact lookups, NoneMatch when none answers
ExactLookups(text) ==
    LET spans == BracketSpans(text, 1)
        tokens == [k \in 1..Len(spans) |->
                      NoBrackets(SubSeq(text, spans[k].from + 1, spans[k].to - 1))]
        hits == {k \in 1..Len(tokens) : ~LookupToken(tokens[k]).id_is_none}
    IN  IF Len(spans) = 0 THEN NoneMatch
        ELSE IF hits # {} THEN LookupToken(tokens[MinOf(hits)])
        ELSE ExactMatch(RemainingPart(text))

\* {text[i:i+3] for i in range(len(text) - 2)}
Trigrams(text) == {SubSeq(text, i, i + 2) : i \in 1..(Len(text) - 2)}

\* get_candidates: the officials that share a trigram with the query; the
\* QRatio of two such names of this length is above 0.3
GetCandidates(text) ==
    Sorted({i \in 1..Len(officials) :
               Trigrams(text) \cap Trigrams(officials[i].normalized) # {}})

\* the combined scores a candidate may get, in hundredths
ScoreValues == {80, 85, 90}

\* match_name's default threshold, in hundredths
Threshold == 85

\* re.match of the unmatched patterns: the bracketed ones need a word character
\* before "(" and match nowhere at the start; fra and deu match as first word
StartsWithWord(text, word) ==
    /\ Len(text) >= Len(word)
    /\ SubSeq(text, 1, Len(word)) = word
    /\ Len(text) > Len(word) => text[Len(word) + 1] \in {" ", "(", ")"}

MatchesUnmatchedPattern(text) ==
    StartsWithWord(text, fra) \/ StartsWithWord(text, <<"d", "e", "u">>)

\* lines 326-344: the best of the scores, the first of them on a tie
BestMatch(cands, scores) ==
    LET best == CHOOSE i \in 1..Len(cands) :
                    /\ \A j \in 1..Len(cands) : scores[j] <= scores[i]
                    /\ \A j \in 1..(i - 1) : scores[j] < scores[i]
    IN  MatchTuple(officials[cands[best]].id, officials[cands[best]].name, scores[best])

Decide(text, best_match) ==
    IF best_match.confidence < Threshold
    THEN (IF MatchesUnmatchedPattern(text) THEN Foreign ELSE Unmatched)
    ELSE IF best_match.name \in config.false_positives THEN Foreign
    ELSE best_match

\* line 257: the query replaced by its correction when it is a common mistake
MatchCall ==
    /\ match_pc = "idle"
    /\ \E q \in Queries :
          /\ match_query' = q
          /\ query_normalized' = DictGet(config.common_mistakes, q, q)
    /\ match_pc' = "exact"
    /\ UNCHANGED <<officials, config, match_candidates, match_scores, match_result,
                   catalogVars, snapVars, service, findVars, multiVars, projVars, frameVars>>

\* lines 260-277: the bracketed parts, then the part outside the brackets
MatchExact ==
    /\ match_pc = "exact"
    /\ LET result == ExactLookups(query_normalized)
       IN  IF ~result.id_is_none
           THEN /\ match_result' = result
                /\ match_pc' = "returned"
           ELSE /\ match_pc' = "candidates"
                /\ UNCHANGED match_result
    /\ UNCHANGED <<officials, config, match_query, query_normalized, match_candidates,
                   match_scores, catalogVars, snapVars, service, findVars, multiVars, projVars,
                   frameVars>>

\* lines 280-282: no candidate, no match
MatchCandidates ==
    /\ match_pc = "candidates"
    /\ match_candidates' = GetCandidates(query_normalized)
    /\ IF Len(match_candidates') = 0
       THEN /\ match_result' = NoneMatch
            /\ match_pc' = "returned"
       ELSE /\ match_pc' = "score"
            /\ UNCHANGED match_result
    /\ UNCHANGED <<officials, config, match_query, query_normalized, match_scores,
                   catalogVars, snapVars, service, findVars, multiVars, projVars, frameVars>>

\* lines 285-344: the candidates scored, the best one judged
MatchScore ==
    /\ match_pc = "score"
    /\ \E scores \in [1..Len(match_candidates) -> ScoreValues] :
          /\ match_scores' = scores
          /\ match_result' = Decide(query_normalized, BestMatch(match_candidates, scores))
    /\ match_pc' = "returned"
    /\ UNCHANGED <<officials, config, match_query, query_normalized, match_candidates,
                   catalogVars, snapVars, service, findVars, multiVars, projVars, frameVars>>

MatchIdle ==
    /\ match_pc = "idle"
    /\ match_query = <<>>
    /\ query_normalized = <<>>
    /\ match_candidates = <<>>
    /\ match_scores = <<>>
    /\ match_result = NoMatchResult

NoMatcher ==
    /\ officials = <<>>
    /\ config = [foreign_country_codes |-> {}, additional_foreign_indicators |-> {},
                 false_positives |-> {}, common_mistakes |-> EmptyDict]
    /\ MatchIdle

----------------------------------------------------------------------------
(* Specification of the State Identifier: any catalog, any caller DataFrame *)

FindDates == SubSeq(OfficialDates, 1, NumStates)

Catalogs == [Range(FindDates) -> {SnapshotDict(s) : s \in (SUBSET CatalogCodes) \ {{}}}]

FindIdle ==
    /\ find_pc = "idle"
    /\ find_df = <<>>
    /\ gemeinde_set = {}
    /\ num_gmde = 0
    /\ wrong_codes_dict = EmptyDict
    /\ find_result = NoResult

Init ==
    /\ gmde_dct \in Catalogs
    /\ data = DataOf(FindDates, gmde_dct)
    /\ service = NoService
    /\ FindIdle
    /\ MultiIdle
    /\ ProjIdle
    /\ NoMatcher
    /\ FrameIdle
    /\ SnapIdle

Next ==
    \/ FindCall
    \/ CheckForNonBfsCodes
    \/ SearchByCount
    \/ InferAndCorrect

Spec == Init /\ [][Next]_vars

----------------------------------------------------------------------------
(* Specification of the Composer and the Projector: one call, against any   *)
(* of the correspondence services                                          *)

InitMap ==
    /\ gmde_dct = MapDct
    /\ data = DataOf(OfficialDates, MapDct)
    /\ service \in Omissions
    /\ FindIdle
    /\ MultiIdle
    /\ ProjIdle
    /\ NoMatcher
    /\ FrameIdle
    /\ SnapIdle

NextMap ==
    \/ MultiCall
    \/ MultiFetchComplete
    \/ MultiFetchFail
    \/ MultiGathered
    \/ MultiFoldStep
    \/ MultiReturn
    \/ ProjCall
    \/ ProjRerun
    \/ ProjFetchComplete
    \/ ProjFetchFail
    \/ ProjGathered
    \/ ProjFoldStep
    \/ ProjReturn

SpecMap == InitMap /\ [][NextMap]_vars

\* the Composer alone
NextMulti ==
    \/ MultiCall
    \/ MultiFetchComplete
    \/ MultiFetchFail
    \/ MultiGathered
    \/ MultiFoldStep
    \/ MultiReturn
    \/ MultiAgain

SpecMulti == InitMap /\ [][NextMulti]_vars

\* the Projector alone
NextProj ==
    \/ ProjCall
    \/ ProjRerun
    \/ ProjFetchComplete
    \/ ProjFetchFail
    \/ ProjGathered
    \/ ProjFoldStep
    \/ ProjReturn

SpecProj == InitMap /\ [][NextProj]_vars

----------------------------------------------------------------------------
(* Specification of map_dataframe: one call, against any of the services *)

InitFrame == InitMap

NextFrame ==
    \/ FrameCall
    \/ CheckForNonBfsCodes
    \/ SearchByCount
    \/ InferAndCorrect
    \/ FrameFound
    \/ FrameMap
    \/ MultiFetchComplete
    \/ MultiFetchFail
    \/ MultiGathered
    \/ MultiFoldStep
    \/ MultiReturn
    \/ FrameMultiDone
    \/ FrameFetchComplete
    \/ FrameFetchFail

SpecFrame == InitFrame /\ [][NextFrame]_vars

----------------------------------------------------------------------------
(* Specification of the date snapping: any catalog of official dates, any   *)
(* given date, any preference                                              *)

\* the catalogs: the states of MapDct at some of the official dates, in order
SnapCatalogs ==
    {SelectSeq(OfficialDates, LAMBDA d : d \in ds) :
        ds \in (SUBSET Range(OfficialDates)) \ {{}}}

InitSnap ==
    /\ \E dates \in SnapCatalogs :
          /\ gmde_dct = [d \in Range(dates) |-> MapDct[d]]
          /\ data = DataOf(dates, gmde_dct)
    /\ service = NoService
    /\ FindIdle
    /\ MultiIdle
    /\ ProjIdle
    /\ NoMatcher
    /\ FrameIdle
    /\ SnapIdle

NextSnap == SnapCall

SpecSnap == InitSnap /\ [][NextSnap]_vars

----------------------------------------------------------------------------
(* Specification of the Name Matcher: any table of officials, any          *)
(* configuration, any query                                                *)

InitMatch ==
    /\ gmde_dct = MapDct
    /\ data = DataOf(OfficialDates, MapDct)
    /\ service = NoService
    /\ FindIdle
    /\ MultiIdle
    /\ ProjIdle
    /\ FrameIdle
    /\ SnapIdle
    /\ officials \in OfficialTables
    /\ config \in Configs
    /\ MatchIdle

NextMatch ==
    \/ MatchCall
    \/ MatchExact
    \/ MatchCandidates
    \/ MatchScore

SpecMatch == InitMatch /\ [][NextMatch]_vars

----------------------------------------------------------------------------
(* Claims about the State Identifier (specification Spec) *)

\* set(df[code_column].unique())
CodesOf(df) == {df[i].code : i \in 1..Len(df)}

FindDone == find_pc \in {"returned", "raised"}

IsReserved(code) == code \in gmde_freie_geb \/ code >= NonMunicipalFrom

\* C1: when the input codes are exactly the codes of a catalog state, the call
\* returns a state with that code set and a null CorrectionMap (and does not fail).
C1_ExactCodeSetIsIdentified ==
    (FindDone /\ \E d \in DOMAIN gmde_dct : Keys(gmde_dct[d]) = CodesOf(find_df))
    => /\ find_result.kind = "return"
       /\ Keys(gmde_dct[find_result.gemeindestand]) = CodesOf(find_df)
       /\ find_result.is_none

\* C2: when one code c of a catalog state is replaced by a never-issued code w that
\* carries c's name, the call returns that state and the CorrectionMap {w -> c}.
C2_ReplacedCodeIsCorrected ==
    \A d \in DOMAIN gmde_dct, c \in CatalogCodes, w \in InputCodes :
        ( /\ FindDone
          /\ c \in Keys(gmde_dct[d])
          /\ w \notin all_historical_bfs_codes
          /\ ~IsReserved(w)
          /\ CodesOf(find_df) = (Keys(gmde_dct[d]) \ {c}) \cup {w}
          /\ FirstNameOf(find_df, w) = gmde_dct[d][c] )
        => /\ find_result.kind = "return"
           /\ Keys(gmde_dct[find_result.gemeindestand]) = Keys(gmde_dct[d])
           /\ ~find_result.is_none
           /\ find_result.corrections = (w :> c)

\* scenario B: the codes {261, 262, 999999}, 999999 named "Alt-Dorf" by the caller,
\* and a catalog state that holds 261, 262 and the code named "Alt-Dorf" (263)
ScenarioB ==
    /\ CodesOf(find_df) = {261, 262, 999999}
    /\ FirstNameOf(find_df, 999999) = "Alt-Dorf"
    /\ \E d \in DOMAIN gmde_dct : {261, 262, 263} \subseteq Keys(gmde_dct[d])

----------------------------------------------------------------------------
(* Claims about the Composer: create_multi_mapping *)

IsOfficial(d) == d \in Range(Gemeindestaende)

Before(a, b) == Strptime(a) < Strptime(b)

\* the values of a row under the columns cols, in their order
RowValues(r, cols) == [k \in 1..Len(cols) |-> r[cols[k]]]

\* the rows of a table as tuples of values
TableValues(t) == [i \in 1..Len(t.rows) |-> RowValues(t.rows[i], t.cols)]

\* the left join of two fetched tables on the (code, name) pair between them,
\* as 6-tuples (code, name) at the first, the middle, the last date
LeftJoinRows(t01, t12) ==
    Flatten([i \in 1..Len(t01) |->
        LET a == t01[i]
            m == SelectSeq(t12, LAMBDA b : b.InitialCode = a.TerminalCode
                                           /\ b.InitialName = a.TerminalName)
        IN  IF Len(m) = 0
            THEN << <<a.InitialCode, a.InitialName, a.TerminalCode, a.TerminalName,
                      NaNCode, NaNName>> >>
            ELSE [j \in 1..Len(m) |->
                     <<a.InitialCode, a.InitialName, a.TerminalCode, a.TerminalName,
                       m[j].TerminalCode, m[j].TerminalName>>]])

CodesOnly(six) == [i \in 1..Len(six) |-> <<six[i][1], six[i][3], six[i][5]>>]

\* a call create_multi_mapping(origin=D0, targets=[D1, D2]) with catalog dates
\* D0 < D1 < D2 has returned
C4_Case ==
    /\ multi_pc = "returned"
    /\ multi_args.targets.kind = "list"
    /\ Len(multi_args.targets.dates) = 2
    /\ IsOfficial(multi_args.origin)
    /\ IsOfficial(multi_args.targets.dates[1])
    /\ IsOfficial(multi_args.targets.dates[2])
    /\ Before(multi_args.origin, multi_args.targets.dates[1])
    /\ Before(multi_args.targets.dates[1], multi_args.targets.dates[2])

\* C4: for catalog dates D0 < D1 < D2, create_multi_mapping(origin=D0,
\* targets=[D1, D2]) returns the left join of Fetch(D0,D1) with Fetch(D1,D2) on
\* the (code, name) pair at D1, and every value of the D0 code column is a code
\* of state D0.
C4_TwoHopsAreLeftJoined ==
    C4_Case =>
        LET D0 == multi_args.origin
            D1 == multi_args.targets.dates[1]
            D2 == multi_args.targets.dates[2]
            expected == LeftJoinRows(corr[<<D0, D1>>], corr[<<D1, D2>>])
            t == multi_result.table
        IN  /\ ~t.is_none
            /\ IF multi_args.return_names
               THEN /\ t.cols = <<CodeCol(D0), NameCol(D0), CodeCol(D1), NameCol(D1),
                                  CodeCol(D2), NameCol(D2)>>
                    /\ TableValues(t) = expected
               ELSE /\ t.cols = <<CodeCol(D0), CodeCol(D1), CodeCol(D2)>>
                    /\ TableValues(t) = CodesOnly(expected)
            /\ \A i \in 1..Len(t.rows) : t.rows[i][CodeCol(D0)] \in Keys(gmde_dct[D0])

\* a two-hop call has returned a table with a row the second hop did not match
\* and a code that the second hop continued
C4_Witness ==
    /\ C4_Case
    /\ \E i, j \in 1..Len(multi_result.table.rows) :
          /\ multi_result.table.rows[i][CodeCol(multi_args.targets.dates[2])] = NaNCode
          /\ multi_result.table.rows[j][CodeCol(multi_args.targets.dates[2])] # NaNCode

\* the catalog states from a to b inclusive, oldest first
CatalogStatesBetween(a, b) ==
    LET inside == {d \in Range(Gemeindestaende) :
                      Strptime(a) <= Strptime(d) /\ Strptime(d) <= Strptime(b)}
        days == Sorted({Strptime(d) : d \in inside})
    IN  [i \in 1..Len(days) |-> Strftime(days[i])]

\* the fetches create_multi_mapping issues for a List target
ListTasksOf(origin, dates) ==
    LET valid == ValidateAndTransformTargets([kind |-> "list", dates |-> dates])
        snapped == FindClosestOfficialGemeindestand(origin, "smaller")
    IN  TasksOf(SortedDatetimes(Append(valid.targets, snapped)))

\* the hop tables of ts[1..k] joined in the order of ts, each the service's
\* answer to its own request
RECURSIVE ChainOf(_, _)
ChainOf(ts, k) ==
    IF k = 0 THEN NoneTable
    ELSE LET hop == RenameHop(corr[ts[k]], ts[k][1], ts[k][2])
         IN  IF k = 1 THEN hop
             ELSE Merge(ChainOf(ts, k - 1), hop, {CodeCol(ts[k][1]), NameCol(ts[k][1])})

ReturnedAs(t, return_names) == IF return_names THEN t ELSE DropNames(t)

\* a call with a Range target (D1, D3) over catalog dates D1 <= D3
C5_Case ==
    /\ multi_pc # "idle"
    /\ multi_args.targets.kind = "tuple"
    /\ Len(multi_args.targets.dates) = 2
    /\ IsOfficial(multi_args.targets.dates[1])
    /\ IsOfficial(multi_args.targets.dates[2])
    /\ Strptime(multi_args.targets.dates[1]) <= Strptime(multi_args.targets.dates[2])

\* C5: create_multi_mapping with the Range target (D1, D3) issues the same
\* fetches and returns the same table as with the List target of the catalog
\* states from D1 to D3 inclusive, for the same origin.
C5_RangeEqualsList ==
    C5_Case =>
        LET listed == CatalogStatesBetween(multi_args.targets.dates[1],
                                           multi_args.targets.dates[2])
            list_tasks == ListTasksOf(multi_args.origin, listed)
        IN  /\ tasks = list_tasks
            /\ multi_pc = "returned" =>
                   multi_result.table =
                       ReturnedAs(ChainOf(list_tasks, Len(list_tasks)),
                                  multi_args.return_names)

\* a Range call over exactly three catalog states, from an older origin, returned
C5_Witness ==
    /\ C5_Case
    /\ multi_pc = "returned"
    /\ Len(CatalogStatesBetween(multi_args.targets.dates[1],
                                multi_args.targets.dates[2])) = 3
    /\ IsOfficial(multi_args.origin)
    /\ Before(multi_args.origin, multi_args.targets.dates[1])
    /\ Len(tasks) = 3
    /\ Len(multi_result.table.rows) > 0

\* the fetches of the call have all returned and the fold has started
MultiFolding ==
    \/ multi_pc \in {"fold", "returned"}
    \/ multi_pc = "raised" /\ multi_result.kind = "AttributeError"

\* C9: whatever the order in which the fetches of one create_multi_mapping call
\* complete, the fold starts only after all have completed and joins the hop
\* tables in chronological hop order, each the response to its own request; the
\* returned table depends on the hops alone.
C9_FoldInHopOrder ==
    /\ MultiFolding =>
          /\ \A i \in 1..Len(tasks) :
                /\ mappings[i].done
                /\ mappings[i].table = corr[tasks[i]]
                /\ Before(tasks[i][1], tasks[i][2])
                /\ i < Len(tasks) => tasks[i][2] = tasks[i + 1][1]
    /\ multi_pc = "fold" => full_mapping = ChainOf(tasks, fold_i)
    /\ multi_pc = "returned" =>
          multi_result.table = ReturnedAs(ChainOf(tasks, Len(tasks)),
                                          multi_args.return_names)

\* a call of several hops returned after a later hop's fetch overtook an earlier one
C9_Witness ==
    /\ multi_pc = "returned"
    /\ overtaken
    /\ Len(tasks) >= 2
    /\ Len(multi_result.table.rows) > 0
    /\ corr[tasks[1]] # corr[tasks[2]]

\* the call ended without a rejected argument and without a failed fetch
MultiEnded ==
    \/ multi_pc = "returned"
    \/ multi_pc = "raised" /\ multi_result.kind = "AttributeError"

\* C10: for every origin and accepted specification of at least one target whose
\* fetches all succeed against a complete service, create_multi_mapping returns a table in
\* which every code of the snapped origin state appears in the origin date's
\* code column.
C10_OriginCodesArePreserved ==
    (MultiEnded /\ service = NoService /\ Len(multi_args.targets.dates) > 0) =>
        /\ multi_pc = "returned"
        /\ ~multi_result.table.is_none
        /\ \A c \in Keys(gmde_dct[multi_origin]) :
              \E i \in 1..Len(multi_result.table.rows) :
                  multi_result.table.rows[i][CodeCol(multi_origin)] = c

----------------------------------------------------------------------------
(* Claims about the Projector: map_multiple_gemeindestaende_to_newest *)

\* the second run of the Projector, on the output of the first, has returned
C6_Case == proj_pc = "returned" /\ proj_run = 2

\* C6: the Projector is idempotent: run on its own output it returns the same
\* table as the first run, same rows and same projected values.
C6_ProjectorIsIdempotent ==
    C6_Case => proj_result.table = first_output

\* the terminal codes the mapping gives for a code
TerminalsOf(mapping, code) ==
    {mapping[k].TerminalCode : k \in {j \in 1..Len(mapping) : mapping[j].InitialCode = code}}

\* C7: in the Projector's output, a row whose as-of state o is older than newest
\* and whose code has an edge in Fetch(o, newest) carries a terminal code of
\* that code in the mapping of its own as-of state; a row whose as-of state is
\* newest carries its own code.
C7_RowsAreProjectedByTheirOwnMapping ==
    proj_pc = "returned" =>
        \A i \in 1..Len(proj_result.table.rows) :
            LET r == proj_result.table.rows[i]
                o == r[StandColumn]
                projected == r[CodeCol(newest)]
            IN  /\ o = newest => projected = r[CodeColumn]
                /\ (o # newest /\ o # NaNDate
                    /\ TerminalsOf(corr[<<o, newest>>], r[CodeColumn]) # {}) =>
                       projected \in TerminalsOf(corr[<<o, newest>>], r[CodeColumn])

\* the output has rows of two older as-of states and of the newest one, and a
\* row whose code was replaced
C7_Witness ==
    /\ proj_pc = "returned"
    /\ proj_run = 1
    /\ Len(origins) = 2
    /\ \E i, j, k \in 1..Len(proj_result.table.rows) :
          LET r == proj_result.table.rows IN
          /\ r[i][StandColumn] = origins[1]
          /\ r[i][CodeCol(newest)] # r[i][CodeColumn]
          /\ r[i][CodeCol(newest)] \in TerminalsOf(corr[<<origins[1], newest>>],
                                                   r[i][CodeColumn])
          /\ r[j][StandColumn] = origins[2]
          /\ r[j][CodeCol(newest)] # 0
          /\ r[k][StandColumn] = newest
          /\ r[k][CodeCol(newest)] = r[k][CodeColumn]

\* C8: when a fetch of a batch fails, create_multi_mapping and
\* map_multiple_gemeindestaende_to_newest end with that error and return no
\* table; a returned table is built from fetches that all succeeded.
C8_NoTableAfterAFailedFetch ==
    /\ failed # {} =>
          /\ multi_pc = "raised"
          /\ multi_result.kind = "FetchFailed"
          /\ multi_result.table.is_none
    /\ proj_failed # {} =>
          /\ proj_pc = "raised"
          /\ proj_result.kind = "FetchFailed"
          /\ proj_result.table.is_none
    /\ multi_pc = "returned" => \A i \in 1..Len(tasks) : mappings[i].done
    /\ proj_pc = "returned" => \A i \in 1..Len(origins) : proj_mappings[i].done

\* a fetch of a Composer batch failed after another of the batch had succeeded
C8_Witness ==
    /\ multi_pc = "raised"
    /\ failed # {}
    /\ \E i \in 1..Len(tasks) : mappings[i].done /\ Len(mappings[i].table) > 0

\* the same in a Projector batch
C8_WitnessProjector ==
    /\ proj_pc = "raised"
    /\ proj_failed # {}
    /\ \E i \in 1..Len(origins) : proj_mappings[i].done

----------------------------------------------------------------------------
(* Further claims about the State Identifier: find_gemeindestand *)

\* F: the codes of the caller's data that are not reserved
FilteredSet(df) == {c \in CodesOf(df) : ~IsReserved(c)}

\* the never-issued codes of F
NeverIssued(df) == FilteredSet(df) \ all_historical_bfs_codes

\* F': F without its never-issued codes
CleanedSet(df) == FilteredSet(df) \cap all_historical_bfs_codes

\* the catalog states that hold every code of codes
SupersetStates(codes) == {d \in DOMAIN gmde_dct : codes \subseteq Keys(gmde_dct[d])}

\* C12: on data with a code that is not reserved, find_gemeindestand returns a
\* state whenever some catalog state holds every code of the cleaned set F', and
\* fails with StateNotFound (ValueError) otherwise.
C12_ReturnsWheneverAStateFits ==
    (FindDone /\ FilteredSet(find_df) # {}) =>
        IF SupersetStates(CleanedSet(find_df)) # {}
        THEN find_result.kind = "return"
        ELSE find_result.kind = "ValueError"

\* the call returned through the backward inference
ReturnedByInference == find_pc = "returned" /\ ~find_result.is_none

\* the call returned through the cardinality match
ReturnedByCount == find_pc = "returned" /\ find_result.is_none

\* C17: a state returned after the cardinality match found none is the newest
\* catalog state that holds every code of the cleaned set F': no later catalog
\* state holds them all.
C17_InferredStateIsTheNewestSuperset ==
    ReturnedByInference =>
        /\ find_result.gemeindestand \in SupersetStates(CleanedSet(find_df))
        /\ \A d \in SupersetStates(CleanedSet(find_df)) :
               Strptime(d) <= Strptime(find_result.gemeindestand)

\* the inference returned the newer of two catalog states that both hold F'
C17_Witness ==
    /\ ReturnedByInference
    /\ Cardinality(SupersetStates(CleanedSet(find_df))) >= 2
    /\ CleanedSet(find_df) # {}

\* C18: a state returned with a null correction has exactly N = |F| codes, holds
\* every code of F, and is the first such state in catalog order.
C18_CountMatchReturnsFirstSupersetOfF ==
    ReturnedByCount =>
        LET F == FilteredSet(find_df)
            s == find_result.gemeindestand
        IN  /\ Cardinality(Keys(gmde_dct[s])) = Cardinality(F)
            /\ F \subseteq Keys(gmde_dct[s])
            /\ \A d \in SupersetStates(F) :
                   Cardinality(Keys(gmde_dct[d])) = Cardinality(F)
                       => Strptime(s) <= Strptime(d)

\* C19: never-issued codes are stripped only after the cardinality match: the
\* match sees the full filtered set F, and a call whose F holds a never-issued
\* code never returns a null CorrectionMap.
C19_NeverIssuedCodesSurviveTheCountMatch ==
    /\ find_pc = "candidates" => gemeinde_set = FilteredSet(find_df)
    /\ (FindDone /\ NeverIssued(find_df) # {}) => ~ReturnedByCount

\* the code that bears the name in the state, the code w itself when none does
CorrectionOf(stand, name, w) ==
    IF \E c \in Keys(gmde_dct[stand]) : gmde_dct[stand][c] = name
    THEN CHOOSE c \in Keys(gmde_dct[stand]) : gmde_dct[stand][c] = name
    ELSE w

\* C20: the CorrectionMap returned after backward inference has exactly one entry
\* for every never-issued code w stripped from F: the code bearing w's
\* caller-supplied name in the inferred state, or w itself.
C20_OneCorrectionPerNeverIssuedCode ==
    ReturnedByInference =>
        /\ DOMAIN find_result.corrections = NeverIssued(find_df)
        /\ \A w \in NeverIssued(find_df) :
               find_result.corrections[w] =
                   CorrectionOf(find_result.gemeindestand, FirstNameOf(find_df, w), w)

----------------------------------------------------------------------------
(* Further claims about the Composer and the Projector *)

\* a call of create_multi_mapping with a target that is no list and no 2-tuple
C13_Case ==
    /\ multi_pc # "idle"
    /\ \/ multi_args.targets.kind \notin {"list", "tuple"}
       \/ multi_args.targets.kind = "tuple" /\ Len(multi_args.targets.dates) # 2

\* C13: create_multi_mapping rejects a target that is neither a list nor a tuple
\* with InvalidTargetSpec (TypeError) and a tuple of a length other than 2 with
\* AmbiguousDateRange (AssertionError); the error reaches the caller and no
\* fetch has been issued.
C13_BadTargetsAreRejectedBeforeAnyFetch ==
    C13_Case =>
        /\ multi_pc = "raised"
        /\ multi_result.kind =
               IF multi_args.targets.kind = "tuple" THEN "AssertionError" ELSE "TypeError"
        /\ multi_result.table.is_none
        /\ tasks = <<>>
        /\ mappings = <<>>
        /\ failed = {}

\* a 3-tuple was rejected
C13_Witness ==
    /\ C13_Case
    /\ multi_pc = "raised"
    /\ multi_args.targets.kind = "tuple"
    /\ Len(multi_args.targets.dates) = 3
    /\ multi_result.kind = "AssertionError"

\* a row of the Projector's output whose code has no edge in the mapping of its
\* as-of state, older than newest
HasNoEdge(r) ==
    /\ r[StandColumn] # newest
    /\ r[StandColumn] # NaNDate
    /\ TerminalsOf(corr[<<r[StandColumn], newest>>], r[CodeColumn]) = {}

\* the Projector ended with an error that no failed fetch and no empty as-of
\* column explains
ProjFatal ==
    proj_pc = "raised" /\ proj_result.kind \notin {"FetchFailed", "IndexError"}

\* C14 as stated: a row without an edge is not fatal, and its projected value
\* is null.
C14_UnresolvedRowsAreNull ==
    /\ ~ProjFatal
    /\ proj_pc = "returned" =>
          \A i \in 1..Len(proj_result.table.rows) :
              HasNoEdge(proj_result.table.rows[i]) =>
                  proj_result.table.rows[i][CodeCol(newest)] = NaNCode

\* C14 as amended: a row without an edge is not fatal; its projected value is
\* the placeholder 0 the column was created with, which is not null and which
\* no mapping gives as a terminal code.
C14_UnresolvedRowsAreZero ==
    /\ ~ProjFatal
    /\ proj_pc = "returned" =>
          /\ \A i \in 1..Len(proj_result.table.rows) :
                HasNoEdge(proj_result.table.rows[i]) =>
                    /\ proj_result.table.rows[i][CodeCol(newest)] = 0
                    /\ proj_result.table.rows[i][CodeCol(newest)] # NaNCode
          /\ \A i \in 1..Len(origins) : 0 \notin
                {corr[<<origins[i], newest>>][k].TerminalCode :
                    k \in 1..Len(corr[<<origins[i], newest>>])}

\* the table was returned with a row that has no edge next to a resolved row
C14_Witness ==
    /\ proj_pc = "returned"
    /\ proj_run = 1
    /\ \E i, j \in 1..Len(proj_result.table.rows) :
          /\ HasNoEdge(proj_result.table.rows[i])
          /\ proj_result.table.rows[i][CodeColumn] # 0
          /\ ~HasNoEdge(proj_result.table.rows[j])
          /\ proj_result.table.rows[j][StandColumn] # newest
          /\ proj_result.table.rows[j][StandColumn] # NaNDate
          /\ proj_result.table.rows[j][CodeCol(newest)] # 0

----------------------------------------------------------------------------
(* Claims about the Name Matcher: match_name (specification SpecMatch) *)

\* text holds the token, between an opening and a closing bracket
HasBracketedToken(text, token) ==
    \E i \in 1..Len(text) :
        /\ i + Len(token) + 1 <= Len(text)
        /\ SubSeq(text, i, i + Len(token) + 1) = Bracketed(token)

\* the query, as given and as matched, holds a configured foreign country code
\* in brackets
C15_Case ==
    /\ match_pc = "returned"
    /\ match_query = query_normalized
    /\ \E code \in config.foreign_country_codes :
          HasBracketedToken(query_normalized, code)

\* C15: a query with a bracketed token equal to a configured foreign country
\* code is answered with id -1 and confidence 1.0, whatever officials exist and
\* whatever other bracketed tokens the query holds.
C15_BracketedForeignCodeIsForeign ==
    C15_Case => match_result = Foreign

\* the query has no exact match and names no foreign indicator, and no
\* candidate scores at or above the threshold
C16_Case ==
    /\ match_pc = "returned"
    /\ ExactLookups(query_normalized).id_is_none
    /\ ~MatchesUnmatchedPattern(query_normalized)
    /\ \A i \in 1..Len(match_scores) : match_scores[i] < Threshold

\* C16: a query with no exact match, no foreign indicator and no official
\* scoring at or above the threshold is answered with id 0 and confidence 0.0,
\* with an empty candidate set as with candidates that all score too low.
C16_UnmatchedIsZero ==
    C16_Case => match_result = Unmatched

----------------------------------------------------------------------------
(* Claims about map_dataframe (specification SpecFrame) *)

\* what map_dataframe gives for the target [d], from the DataFrame and the
\* origin it has reached the mapping with: the chain of create_multi_mapping
\* merged onto the renamed DataFrame
FrameListForm(df, origin, d, return_names) ==
    LET ts == ListTasksOf(origin, <<d>>)
    IN  IF Len(ts) = 0
        THEN [kind |-> IF return_names THEN "TypeError" ELSE "AttributeError",
              table |-> NoneTable]
        ELSE FrameMerge(df, origin, ReturnedAs(ChainOf(ts, Len(ts)), return_names))

\* a call with a Single target d of the catalog, the default newest state
\* included, whose fetch has been answered
C11_Case ==
    /\ frame_pc \in {"returned", "raised"}
    /\ FrameTarget(frame_args).kind = "str"
    /\ IsOfficial(FrameTarget(frame_args).dates[1])
    /\ frame_mapping.done

\* C11: map_dataframe with a Single target d returns the same joined table as
\* with the target [d], with the same date-suffixed columns, and does not fail
\* where the list form succeeds.
C11_SingleTargetIsAOneElementList ==
    C11_Case =>
        LET list_form == FrameListForm(frame_df, frame_origin,
                             FrameTarget(frame_args).dates[1], frame_args.return_names)
        IN  list_form.kind = "return" => frame_result = list_form

\* C27: every state find_gemeindestand returns, through the cardinality match
\* or through the backward inference, holds every code of the input that is
\* neither reserved nor never-issued.
C27_ReturnedStateHoldsEveryIssuedCode ==
    find_pc = "returned" =>
        CleanedSet(find_df) \subseteq Keys(gmde_dct[find_result.gemeindestand])

\* the cardinality match returned a state although another state of the same
\* count lacks a code of the input
C27_Witness ==
    /\ ReturnedByCount
    /\ CleanedSet(find_df) # {}
    /\ \E d \in DOMAIN gmde_dct :
          /\ Cardinality(Keys(gmde_dct[d])) = num_gmde
          /\ ~(CleanedSet(find_df) \subseteq Keys(gmde_dct[d]))

----------------------------------------------------------------------------
(* Claims about the reserved codes and the returned state (specification Spec) *)

\* the caller's rows without those of a reserved code
WithoutReserved(df) == SelectSeq(df, LAMBDA r : ~IsReserved(r.code))

\* what find_gemeindestand may give for df: lines 263-296 as one function of df;
\* the correction depends on which of several codes of one name the inversion
\* keeps
FindOutcomes(df) ==
    LET filtered == CheckForUnpopulatedAreas(CodesOf(df))
        n == Cardinality(filtered)
        wrong_codes == filtered \ all_historical_bfs_codes
        cleaned == filtered \ wrong_codes
        names == [c \in wrong_codes |-> FirstNameOf(df, c)]
        cands == Candidates(n)
        hit == IF Len(cands) = 1
               THEN (IF CheckGemeindestand(cands[1], cleaned) THEN cands[1] ELSE NoDate)
               ELSE IF Len(cands) > 1 THEN FirstMatch(cands, cleaned)
               ELSE NoDate
        inferred == InferGemeindestand(cleaned)
    IN  IF wrong_codes = {} THEN {Raised("UnboundLocalError")}
        ELSE IF hit # NoDate THEN {Returned(hit, TRUE, EmptyDict)}
        ELSE IF inferred = NoDate THEN {Raised("ValueError")}
        ELSE {Returned(inferred, FALSE, CorrectWrongCodes(inferred, w)) :
                 w \in Inversions(names)}

\* C21: reserved codes take no part in the inference: the call on data with
\* reserved codes ends as the call on the same data without them, same state
\* and same CorrectionMap, and the caller's data is not rewritten by the call.
C21_ReservedCodesTakeNoPart ==
    /\ [](FindDone => find_result \in FindOutcomes(WithoutReserved(find_df)))
    /\ [][find_pc # "idle" => find_df' = find_df]_vars

\* a call on data with a reserved code and other codes has returned a state
C21_Witness ==
    /\ find_pc = "returned"
    /\ \E c \in CodesOf(find_df) : IsReserved(c)
    /\ \E c \in CodesOf(find_df) : c >= NonMunicipalFrom
    /\ CleanedSet(find_df) # {}
    /\ WithoutReserved(find_df) # find_df

----------------------------------------------------------------------------
(* Claims about the date snapping (specification SpecSnap) *)

\* the catalog dates earlier than the date d, and those later
EarlierDates(d) == {c \in Range(Gemeindestaende) : Strptime(c) < Strptime(d)}
LaterDates(d) == {c \in Range(Gemeindestaende) : Strptime(c) > Strptime(d)}

\* r is a catalog date as near to d as any
IsNearest(r, d) ==
    \A c \in Range(Gemeindestaende) :
        Abs(Strptime(r) - Strptime(d)) <= Abs(Strptime(c) - Strptime(d))

\* C25: the snapping returns a catalog date, and a catalog date unchanged; for
\* another date, 'smaller' gives the latest catalog date before it and 'larger'
\* the earliest after it when there is one, and the nearest catalog date when
\* there is none.
C25_SnappingFollowsThePreference ==
    snap_pc = "returned" =>
        LET g == snap_args.given_date
            r == snap_result
        IN  /\ r \in Range(Gemeindestaende)
            /\ g \in Range(Gemeindestaende) => r = g
            /\ (g \notin Range(Gemeindestaende) /\ snap_args.prefer = "smaller") =>
                  IF EarlierDates(g) # {}
                  THEN /\ r \in EarlierDates(g)
                       /\ \A c \in EarlierDates(g) : Strptime(c) <= Strptime(r)
                  ELSE IsNearest(r, g)
            /\ (g \notin Range(Gemeindestaende) /\ snap_args.prefer = "larger") =>
                  IF LaterDates(g) # {}
                  THEN /\ r \in LaterDates(g)
                       /\ \A c \in LaterDates(g) : Strptime(r) <= Strptime(c)
                  ELSE IsNearest(r, g)

\* a date between two catalog dates, nearer to the later one, snapped to the
\* earlier one
C25_Witness ==
    /\ snap_pc = "returned"
    /\ snap_args.prefer = "smaller"
    /\ snap_args.given_date \notin Range(Gemeindestaende)
    /\ snap_result \in EarlierDates(snap_args.given_date)
    /\ ~IsNearest(snap_result, snap_args.given_date)

----------------------------------------------------------------------------
(* Further claims about the Composer (specification SpecMulti) *)

\* the snapped origin and the snapped targets of the call, a Range expanded to
\* the catalog dates it covers
SnappedDates ==
    LET origin == FindClosestOfficialGemeindestand(multi_args.origin, "smaller")
        given == multi_args.targets.dates
    IN  {origin} \cup
        (IF multi_args.targets.kind = "tuple"
         THEN Range(CatalogStatesBetween(
                        FindClosestOfficialGemeindestand(given[1], "smaller"),
                        FindClosestOfficialGemeindestand(given[2], "larger")))
         ELSE {FindClosestOfficialGemeindestand(given[i], "nearest") :
                  i \in 1..Len(given)})

\* a and b are dates of S with a before b and no date of S between them
AdjacentIn(S, a, b) ==
    /\ a \in S
    /\ b \in S
    /\ Strptime(a) < Strptime(b)
    /\ ~\E c \in S : Strptime(a) < Strptime(c) /\ Strptime(c) < Strptime(b)

\* the call has passed the validation of its targets
MultiIssued == multi_pc \notin {"idle"} /\ multi_result.kind \notin {"TypeError", "AssertionError"}

\* C22: one call issues exactly the fetches of the consecutive pairs of S, the
\* sorted de-duplicated snapped origin and targets: each pair once, no pair of
\* non-adjacent dates, the origin date of each before its target date, |S| - 1
\* requests, none issued again after a failure, and the same on a later call.
C22_OneFetchPerConsecutivePair ==
    /\ [](MultiIssued =>
            /\ Len(tasks) = Cardinality(SnappedDates) - 1
            /\ \A i \in 1..Len(tasks) : AdjacentIn(SnappedDates, tasks[i][1], tasks[i][2])
            /\ \A i, j \in 1..Len(tasks) : tasks[i] = tasks[j] => i = j)
    /\ [][(multi_pc \in {"gather", "fold"}) => tasks' = tasks]_vars

\* a call over three dates given out of order and with a duplicate issued two
\* fetches
C22_Witness ==
    /\ MultiIssued
    /\ multi_args.targets.kind = "list"
    /\ Len(multi_args.targets.dates) = 3
    /\ Strptime(multi_args.targets.dates[1]) > Strptime(multi_args.targets.dates[2])
    /\ Cardinality(SnappedDates) = 3
    /\ Len(tasks) = 2

\* the (code, name) pair of row r at the origin date of hop k has no edge in
\* the table fetched for hop k
NoEdgeInHop(r, k) ==
    ~\E e \in 1..Len(mappings[k].table) :
        /\ mappings[k].table[e].InitialCode = r[CodeCol(tasks[k][1])]
        /\ mappings[k].table[e].InitialName = r[NameCol(tasks[k][1])]

\* row r has null values in the columns of the target date of hop k
NullAtTargetOf(r, k) ==
    /\ r[CodeCol(tasks[k][2])] = NaNCode
    /\ r[NameCol(tasks[k][2])] = NaNName

\* C26: at every fold step the running table keeps all its rows: their number
\* never decreases, every row lives on in the next table, and a row whose
\* (code, name) pair at S[i] has no edge in hop i's table has null values in
\* the columns of S[i+1] and of every later date.
C26_FoldKeepsEveryRow ==
    /\ []((multi_pc = "fold" /\ fold_i >= 1) =>
            \A n \in 1..Len(full_mapping.rows) : \A k \in 2..fold_i :
                NoEdgeInHop(full_mapping.rows[n], k) =>
                    \A later \in k..fold_i : NullAtTargetOf(full_mapping.rows[n], later))
    /\ [][(multi_pc = "fold" /\ fold_i >= 1 /\ fold_i' = fold_i + 1) =>
            /\ Len(full_mapping'.rows) >= Len(full_mapping.rows)
            /\ \A n \in 1..Len(full_mapping.rows) :
                  \E m \in 1..Len(full_mapping'.rows) :
                      \A c \in Range(full_mapping.cols) :
                          full_mapping'.rows[m][c] = full_mapping.rows[n][c]]_vars

\* three hops folded; a row lost its edge in the second hop and is null at the
\* dates of the second and of the third hop
C26_Witness ==
    /\ multi_pc = "fold"
    /\ fold_i = 3
    /\ \E n \in 1..Len(full_mapping.rows) :
          /\ full_mapping.rows[n][CodeCol(tasks[2][1])] # NaNCode
          /\ NoEdgeInHop(full_mapping.rows[n], 2)
          /\ NullAtTargetOf(full_mapping.rows[n], 2)
          /\ NullAtTargetOf(full_mapping.rows[n], 3)

----------------------------------------------------------------------------
(* Further claims about the Projector (specification SpecProj) *)

\* the call has found an as-of value in its data and has issued its fetches
ProjIssued == proj_pc # "idle" /\ proj_result.kind # "IndexError"

\* the as-of values present in the data of the call, the missing one left out
PresentStands ==
    {caller_df.rows[i][StandColumn] : i \in 1..Len(caller_df.rows)} \ {NaNDate}

\* C23: newest is the latest as-of value present in the data, and the fetches
\* are exactly one Fetch(o, newest) for each distinct non-missing as-of value o
\* older than newest: none for newest, none for a state absent from the data,
\* none at all when the data holds one as-of value.
C23_OneFetchPerOlderStand ==
    ProjIssued =>
        /\ newest \in PresentStands
        /\ \A d \in PresentStands : Strptime(d) <= Strptime(newest)
        /\ Range(origins) = PresentStands \ {newest}
        /\ Len(origins) = Cardinality(PresentStands) - 1
        /\ Len(proj_mappings) = Len(origins)
        /\ \A i \in 1..Len(origins) :
              proj_mappings[i].done =>
                  proj_mappings[i].table = corr[<<origins[i], newest>>]

\* data of two as-of values, none the catalog's latest state, and a row of a
\* missing as-of value: one fetch was issued and has returned
C23_Witness ==
    /\ ProjIssued
    /\ proj_run = 1
    /\ Cardinality(PresentStands) = 2
    /\ \E i \in 1..Len(caller_df.rows) : caller_df.rows[i][StandColumn] = NaNDate
    /\ newest # Gemeindestaende[Len(Gemeindestaende)]
    /\ Len(origins) = 1
    /\ proj_mappings[1].done

\* the mapping being merged in a fold step of the Projector, and its origin
FoldOrigin == origins[proj_i + 1]
FoldMapping == proj_mappings[proj_i + 1].table

\* the fold step touches row r: its as-of is the origin of the mapping and its
\* code has an edge there
TouchedByFold(r) ==
    /\ r[StandColumn] = FoldOrigin
    /\ TerminalsOf(FoldMapping, r[CodeColumn]) # {}

\* how many rows of the table t are equal to the row r
CountOf(t, r) == Cardinality({i \in 1..Len(t.rows) : t.rows[i] = r})

\* C24: a fold step of the Projector changes the projected value only of rows
\* whose as-of is the origin of the merged mapping and whose code has an edge in
\* it; every other row is left as it was, so a value resolved by an earlier
\* step is not overwritten by a missing value in a later one.
C24_FoldTouchesOnlyItsOwnRows ==
    [][(proj_pc = "fold" /\ proj_i' = proj_i + 1) =>
          /\ \A n \in 1..Len(proj_df.rows) :
                ~TouchedByFold(proj_df.rows[n]) =>
                    CountOf(proj_df', proj_df.rows[n]) = CountOf(proj_df, proj_df.rows[n])
          /\ \A m \in 1..Len(proj_df'.rows) :
                \/ CountOf(proj_df, proj_df'.rows[m]) > 0
                \/ /\ TouchedByFold(proj_df'.rows[m])
                   /\ proj_df'.rows[m][CodeCol(newest)]
                          \in TerminalsOf(FoldMapping, proj_df'.rows[m][CodeColumn])]_vars

\* the second fold step has run on a table in which the first had resolved a row
C24_Witness ==
    /\ proj_pc = "fold"
    /\ proj_run = 1
    /\ proj_i = 2
    /\ \E n \in 1..Len(proj_df.rows) :
          /\ proj_df.rows[n][StandColumn] = origins[1]
          /\ proj_df.rows[n][CodeCol(newest)] # 0
    /\ \E n \in 1..Len(proj_df.rows) :
          /\ proj_df.rows[n][StandColumn] = origins[2]
          /\ proj_df.rows[n][CodeCol(newest)] # 0

\* C28: the table the Projector returns has one row per row of the table it was
\* given, also when a code of an older state has several codes at newest.
\* Lines 547-548 keep the number of rows of the caller's table, so caller_df
\* still counts the rows of the input.
C28_OneOutputRowPerInputRow ==
    (proj_pc = "returned" /\ proj_run = 1) =>
        Len(proj_result.table.rows) = Len(caller_df.rows)

\* C30: the table the caller passed is as it was passed while the Projector runs
\* and after it: the two columns it came with, no code rewritten to 0.
C30_CallerTableUnchanged ==
    (proj_run = 1 /\ proj_pc # "idle") =>
        /\ caller_df.cols = <<CodeColumn, StandColumn>>
        /\ \A i \in 1..Len(caller_df.rows) : caller_df.rows[i][CodeColumn] # 0

----------------------------------------------------------------------------
(* Further claims about map_dataframe                                      *)

\* map_dataframe was called with an origin and a list or a tuple of targets,
\* the Composer has returned a table, and the call has ended
C29_Case ==
    /\ frame_pc \in {"returned", "raised"}
    /\ frame_args.origin.given
    /\ frame_args.target.kind \in {"list", "tuple"}
    /\ multi_pc = "returned"
    /\ ~multi_result.table.is_none

\* C29: with a list or a tuple of targets map_dataframe joins the caller's rows
\* to the composed mapping on the code column of the origin the Composer used,
\* multi_origin: for every origin the caller gives, one that is snapped to
\* another date too, that column is in the mapping and the call returns the join.
C29_JoinOnTheOriginTheComposerUsed ==
    C29_Case =>
        /\ CodeCol(multi_origin) \in Range(multi_result.table.cols)
        /\ frame_result.kind = "return"
        /\ frame_result.table =
               Merge(RenamedFrame(frame_df, multi_origin), multi_result.table,
                     {CodeCol(multi_origin)})

============================================================================
